---- MODULE Spec2Model ----
(***************************************************************************)
(* Verification model of the tappy-chat server iterations.                 *)
(*                                                                         *)
(* The repository holds several releases of one chat endpoint.  Each       *)
(* release is a program of its own (its own route handler and its own      *)
(* session store); the variable `version` says which release is deployed.  *)
(*                                                                         *)
(*   SpecLead : v13.0 (src/unnamed/part_005) and v13.2 (src/server.js      *)
(*              1-398): context router with the lead-capture flow.         *)
(*   SpecFaq  : v14.6 (src/unnamed/part_006), v14.9 (src/unnamed/part_004),*)
(*              v15.1c (src/server.js 645-924), v15.2 (src/server.js       *)
(*              399-643): sales FAQ matcher with yes/no branching.         *)
(*                                                                         *)
(*   SpecSupport : v13.2, v13.6 (src/unnamed/part_002) and v14.0           *)
(*              (src/server.js 926-1215): support agent with numbered      *)
(*              choices, two sessions.                                     *)
(*                                                                         *)
(*   SpecSession : v9.25 (src/unnamed/part_000): sessions in memory saved  *)
(*              to sessions.json, expiry sweep, reset, completion call.    *)
(*   SpecStore : updateSession of v15.2 applied to a file of two sessions. *)
(*   SpecLeadLog : SpecLead restarted with a lead log of an earlier run.   *)
(*   SpecReplay : v15.1c with two sessions and one remembered turn.        *)
(*   SpecConcurrent : v15.2 with two requests of one session in flight.    *)
(*   SpecPrompt : v13.2, one client in context sales, the offers of the    *)
(*              pricing prompt counted.                                    *)
(*                                                                         *)
(* sessionStore is the content of the session file of the releases that    *)
(* keep the sessions in memory and save them (v9.25); earlier is a history *)
(* variable holding one call or turn handled before.                       *)
(*                                                                         *)
(* A JavaScript string is a sequence of one-character strings, a           *)
(* JavaScript object is a function whose domain is the set of its keys,    *)
(* so an absent property is a key outside the domain.                      *)
(***************************************************************************)
EXTENDS FiniteSets, Integers, Sequences, TLC

VARIABLES version, sessions, keyOrder, leads, now, faqSales, reply, turn,
          sessionStore, earlier

vars == <<version, sessions, keyOrder, leads, now, faqSales, reply, turn,
          sessionStore, earlier>>

(***************************************************************************)
(* Bounds of the model.                                                    *)
(***************************************************************************)
\* wall-clock values a run may pass through (one tick per request)
MaxClock == 7

(***************************************************************************)
(* JavaScript strings.                                                     *)
(***************************************************************************)
LowerSeq ==
  <<"a","b","c","d","e","f","g","h","i","j","k","l","m",
    "n","o","p","q","r","s","t","u","v","w","x","y","z">>

UpperSeq ==
  <<"A","B","C","D","E","F","G","H","I","J","K","L","M",
    "N","O","P","Q","R","S","T","U","V","W","X","Y","Z">>

Digits == {"0","1","2","3","4","5","6","7","8","9"}

\* \s of a JavaScript regular expression, as far as the inputs use it
Whitespace == {" ", "\t", "\n"}

Range(f) == {f[i] : i \in DOMAIN f}

\* \w of a JavaScript regular expression
WordChars == Range(LowerSeq) \cup Range(UpperSeq) \cup Digits \cup {"_"}

IsWordChar(c) == c \in WordChars

\* the lowercase letter of each uppercase letter
LowerOf ==
  [c \in Range(UpperSeq) |->
     LowerSeq[CHOOSE i \in DOMAIN UpperSeq : UpperSeq[i] = c]]

ToLowerChar(c) == IF c \in DOMAIN LowerOf THEN LowerOf[c] ELSE c

\* String.prototype.toLowerCase
ToLowerCase(s) == [i \in 1..Len(s) |-> ToLowerChar(s[i])]

RECURSIVE TrimStart(_)
TrimStart(s) ==
  IF s # <<>> /\ Head(s) \in Whitespace THEN TrimStart(Tail(s)) ELSE s

RECURSIVE TrimEnd(_)
TrimEnd(s) ==
  IF s # <<>> /\ s[Len(s)] \in Whitespace
    THEN TrimEnd(SubSeq(s, 1, Len(s) - 1))
    ELSE s

\* String.prototype.trim
Trim(s) == TrimEnd(TrimStart(s))

\* does q occur in text at position i
OccursAt(text, q, i) ==
  /\ i >= 1
  /\ i + Len(q) - 1 <= Len(text)
  /\ \A k \in 1..Len(q) : text[i + k - 1] = q[k]

\* String.prototype.includes
Includes(text, q) == \E i \in 1..(Len(text) + 1) : OccursAt(text, q, i)

\* Array.prototype.join(" ") of a list of strings
RECURSIVE JoinSpace(_)
JoinSpace(list) ==
  IF list = <<>> THEN <<>>
  ELSE IF Len(list) = 1 THEN list[1]
  ELSE list[1] \o <<" ">> \o JoinSpace(Tail(list))

\* x.split(/\s+/).filter((w) => w.length > 2): the maximal runs of
\* non-whitespace characters longer than two, left to right (the empty
\* strings split() yields around leading or trailing whitespace never pass
\* the length filter)
RECURSIVE LongWordsFrom(_, _, _)
LongWordsFrom(s, i, cur) ==
  IF i > Len(s)
    THEN IF Len(cur) > 2 THEN <<cur>> ELSE <<>>
  ELSE IF s[i] \in Whitespace
    THEN (IF Len(cur) > 2 THEN <<cur>> ELSE <<>>) \o LongWordsFrom(s, i + 1, <<>>)
  ELSE LongWordsFrom(s, i + 1, Append(cur, s[i]))

LongWords(s) == LongWordsFrom(s, 1, <<>>)

(***************************************************************************)
(* v13.0 utilities (src/unnamed/part_005).                                 *)
(***************************************************************************)
NotWsAt(c) == c \notin Whitespace /\ c # "@"

\* /^[^\s@]+@[^\s@]+\.[^\s@]+$/ applied to t
EmailPattern(t) ==
  \E i \in 2..Len(t) :
    /\ t[i] = "@"
    /\ \A k \in 1..(i - 1) : NotWsAt(t[k])
    /\ \E j \in (i + 2)..(Len(t) - 1) :
         /\ t[j] = "."
         /\ \A k \in (i + 1)..(j - 1) : NotWsAt(t[k])
         /\ \A k \in (j + 1)..Len(t) : NotWsAt(t[k])

\* isValidEmail without the trim
isValidEmailUntrimmed(email) == EmailPattern(email)

isValidEmail(email) == EmailPattern(Trim(email))

(***************************************************************************)
(* JavaScript objects.                                                     *)
(***************************************************************************)
EmptyObj == [k \in {} |-> FALSE]

Has(o, k) == k \in DOMAIN o

\* o[k] = v
Put(o, k, v) == [x \in (DOMAIN o) \cup {k} |-> IF x = k THEN v ELSE o[x]]

\* truthiness of a boolean property that may be absent
Flag(o, k) == Has(o, k) /\ o[k] = TRUE

\* parseInt(s, 10) of a string of digits
DigitValue(c) ==
  CASE c = "0" -> 0 [] c = "1" -> 1 [] c = "2" -> 2 [] c = "3" -> 3
    [] c = "4" -> 4 [] c = "5" -> 5 [] c = "6" -> 6 [] c = "7" -> 7
    [] c = "8" -> 8 [] c = "9" -> 9

RECURSIVE ParseInt(_)
ParseInt(s) ==
  IF s = <<>> THEN 0
  ELSE 10 * ParseInt(SubSeq(s, 1, Len(s) - 1)) + DigitValue(s[Len(s)])

\* /^\d+$/
AllDigits(s) == s # <<>> /\ \A i \in 1..Len(s) : s[i] \in Digits

(***************************************************************************)
(* Requests of the context router (v13.0, v13.2).                          *)
(***************************************************************************)
\* client addresses (req.headers["x-forwarded-for"] || remoteAddress)
LeadIPs == {"ip1"}

\* declared context; "absent" is a request without the field, as the
\* widget of src/unnamed/part_001 sends it
Contexts == {"sales", "support", "general", "absent"}

\* message bodies sent with context "sales"; the empty string stands for
\* every falsy message
SalesMsgs ==
  { <<>>,
    <<" ","A","n","n"," ">>,
    <<"a","@","b",".","c","o"," ">>,
    <<"p","r","i","c","e">>,
    <<"Y","e","s">>,
    <<"E","n","d"," ">> }

\* message bodies sent with any other context
OtherMsgs ==
  { <<>>,
    <<" ","A","n","n"," ">>,
    <<"p","r","i","c","e">>,
    <<"t","i","l","l">>,
    <<"j","a","m">>,
    <<"1">>,
    <<"E","n","d"," ">> }

(***************************************************************************)
(* v13.0 helpers (src/unnamed/part_005).                                   *)
(***************************************************************************)
\* faqs_support.json as loaded at start-up
faqsSupport ==
  << [title |-> <<"T","i","l","l">>,
      questions |-> << <<"t","i","l","l"," ","o","f","f","l","i","n","e">> >>,
      answers |-> << <<"o","k">> >>],
     [questions |-> << <<"r","e","s","e","t"," ","T","i","l","l">>,
                       <<"p","a","p","e","r"," ","j","a","m">> >>,
      url |-> <<"/","j">>,
      answers |-> << <<"g","o">> >>],
     [title |-> <<"J","a","m">>,
      questions |-> << <<"j","a","m">> >>] >>

\* logJSON writing the file anew with the one line
logJSONOverwrite(log, data, time) ==
  <<[k \in {"time"} \cup DOMAIN data |->
       IF k \in DOMAIN data THEN data[k] ELSE time]>>

\* logJSON writing the line twice
logJSONTwice(log, data, time) ==
  LET line == [k \in {"time"} \cup DOMAIN data |->
                 IF k \in DOMAIN data THEN data[k] ELSE time]
  IN Append(Append(log, line), line)

\* logJSON(file, data): appends {time, ...data} to the lead log
logJSON(log, data, time) ==
  Append(log, [k \in {"time"} \cup DOMAIN data |->
                 IF k \in DOMAIN data THEN data[k] ELSE time])

\* every blank-separated piece of a string ("".split(/\s+/) pieces)
RECURSIVE PiecesFrom(_, _, _)
PiecesFrom(s, i, cur) ==
  IF i > Len(s) THEN <<cur>>
  ELSE IF s[i] \in Whitespace
    THEN IF i > 1 /\ s[i - 1] \in Whitespace
           THEN PiecesFrom(s, i + 1, cur)
           ELSE <<cur>> \o PiecesFrom(s, i + 1, <<>>)
  ELSE PiecesFrom(s, i + 1, Append(cur, s[i]))

SplitWs(s) == PiecesFrom(s, 1, <<>>)

\* the indices 1..n in ascending order
Indices(n) == [i \in 1..n |-> i]

\* Array.prototype.slice(0, n)
Slice0(list, n) == SubSeq(list, 1, IF Len(list) < n THEN Len(list) ELSE n)

supportScore(entry, words) ==
  Cardinality({qi \in DOMAIN entry.questions :
     \E w \in Range(SplitWs(ToLowerCase(entry.questions[qi]))) : w \in words})

findSupportMatches(message) ==
  LET lower == ToLowerCase(message)
      words == Range(LongWords(lower))
      hit(i) == /\ Has(faqsSupport[i], "questions")
                /\ Has(faqsSupport[i], "answers")
                /\ supportScore(faqsSupport[i], words) > 0
      ids == SelectSeq(Indices(Len(faqsSupport)), hit)
      result(i) ==
        LET entry == faqsSupport[i] IN
        [title |-> IF Has(entry, "title") /\ entry.title # <<>>
                     THEN entry.title ELSE entry.questions[1],
         url |-> IF Has(entry, "url") THEN entry.url ELSE <<>>,
         answers |-> entry.answers]
  IN Slice0([k \in 1..Len(ids) |-> result(ids[k])], 5)

\* continueLeadCapture accepting whatever is typed at the email step
continueLeadCaptureUnchecked(s, message) ==
  CASE s.step = "name" ->
         [s |-> [s EXCEPT !.lead = Put(s.lead, "name", Trim(message)),
                          !.step = "company"],
          text |-> "askCompany", complete |-> FALSE]
    [] s.step = "company" ->
         [s |-> [s EXCEPT !.lead = Put(s.lead, "company", Trim(message)),
                          !.step = "email"],
          text |-> "askEmail", complete |-> FALSE]
    [] s.step = "email" ->
         [s |-> [s EXCEPT !.lead = Put(s.lead, "email", Trim(message)),
                          !.step = "comments"],
          text |-> "askComments", complete |-> FALSE]
    [] s.step = "comments" ->
         [s |-> [s EXCEPT !.lead = Put(s.lead, "comments", Trim(message))],
          text |-> "none", complete |-> TRUE]
    [] OTHER ->
         [s |-> s, text |-> "pleaseContinue", complete |-> FALSE]

\* continueLeadCapture storing the messages as typed, untrimmed
continueLeadCaptureUntrimmed(s, message) ==
  CASE s.step = "name" ->
         [s |-> [s EXCEPT !.lead = Put(s.lead, "name", message),
                          !.step = "company"],
          text |-> "askCompany", complete |-> FALSE]
    [] s.step = "company" ->
         [s |-> [s EXCEPT !.lead = Put(s.lead, "company", message),
                          !.step = "email"],
          text |-> "askEmail", complete |-> FALSE]
    [] s.step = "email" ->
         IF ~isValidEmail(message)
           THEN [s |-> s, text |-> "emailInvalid", complete |-> FALSE]
           ELSE [s |-> [s EXCEPT !.lead = Put(s.lead, "email", message),
                                 !.step = "comments"],
                 text |-> "askComments", complete |-> FALSE]
    [] s.step = "comments" ->
         [s |-> [s EXCEPT !.lead = Put(s.lead, "comments", message)],
          text |-> "none", complete |-> TRUE]
    [] OTHER ->
         [s |-> s, text |-> "pleaseContinue", complete |-> FALSE]

\* continueLeadCapture ending the capture on a session without stepStarted
continueLeadCaptureForgets(s, message) ==
  CASE s.step = "name" ->
         [s |-> [s EXCEPT !.lead = Put(s.lead, "name", Trim(message)),
                          !.step = "company"],
          text |-> "askCompany", complete |-> FALSE]
    [] s.step = "company" ->
         [s |-> [s EXCEPT !.lead = Put(s.lead, "company", Trim(message)),
                          !.step = "email"],
          text |-> "askEmail", complete |-> FALSE]
    [] s.step = "email" ->
         IF ~isValidEmail(message)
           THEN [s |-> s, text |-> "emailInvalid", complete |-> FALSE]
           ELSE [s |-> [s EXCEPT !.lead = Put(s.lead, "email", Trim(message)),
                                 !.step = "comments"],
                 text |-> "askComments", complete |-> FALSE]
    [] s.step = "comments" ->
         [s |-> [k \in DOMAIN s \ {"stepStarted"} |->
                   IF k = "lead" THEN Put(s.lead, "comments", Trim(message))
                   ELSE s[k]],
          text |-> "none", complete |-> TRUE]
    [] OTHER ->
         [s |-> s, text |-> "pleaseContinue", complete |-> FALSE]

continueLeadCapture(s, message) ==
  CASE s.step = "name" ->
         [s |-> [s EXCEPT !.lead = Put(s.lead, "name", Trim(message)),
                          !.step = "company"],
          text |-> "askCompany", complete |-> FALSE]
    [] s.step = "company" ->
         [s |-> [s EXCEPT !.lead = Put(s.lead, "company", Trim(message)),
                          !.step = "email"],
          text |-> "askEmail", complete |-> FALSE]
    [] s.step = "email" ->
         IF ~isValidEmail(message)
           THEN [s |-> s, text |-> "emailInvalid", complete |-> FALSE]
           ELSE [s |-> [s EXCEPT !.lead = Put(s.lead, "email", Trim(message)),
                                 !.step = "comments"],
                 text |-> "askComments", complete |-> FALSE]
    [] s.step = "comments" ->
         [s |-> [s EXCEPT !.lead = Put(s.lead, "comments", Trim(message))],
          text |-> "none", complete |-> TRUE]
    [] OTHER ->
         [s |-> s, text |-> "pleaseContinue", complete |-> FALSE]

(***************************************************************************)
(* The context router, v13.0 (src/unnamed/part_005).                       *)
(***************************************************************************)
RestartWords ==
  { <<"r","e","s","t","a","r","t">>,
    <<"n","e","w"," ","q","u","e","s","t","i","o","n">> }

EndWords ==
  { <<"e","n","d">>, <<"e","x","i","t">>, <<"c","l","o","s","e">> }

\* /(price|quote|cost|subscription)/
PriceWordsV130 ==
  { <<"p","r","i","c","e">>, <<"q","u","o","t","e">>, <<"c","o","s","t">>,
    <<"s","u","b","s","c","r","i","p","t","i","o","n">> }

\* the quick links of handleSalesAgent, in order
quick ==
  << [k |-> { <<"r","e","s","t","a","u","r","a","n","t">>, <<"b","a","r">>,
              <<"c","a","f","e">> },
      l |-> "Hospitality EPOS"],
     [k |-> { <<"r","e","t","a","i","l">>, <<"s","h","o","p">>,
              <<"s","t","o","r","e">> },
      l |-> "Retail POS"],
     [k |-> { <<"v","o","u","c","h","e","r">>, <<"g","i","f","t">> },
      l |-> "GiveaVoucher"],
     [k |-> { <<"p","a","y","m","e","n","t">>, <<"t","a","p","a","p","a","y">>,
              <<"c","a","r","d">> },
      l |-> "TapaPay Payments"],
     [k |-> { <<"h","a","r","d","w","a","r","e">>,
              <<"t","e","r","m","i","n","a","l">>, <<"t","i","l","l">> },
      l |-> "POS Hardware"] >>

\* /(buy|system|epos|pos|quote|price|payment|restaurant|retail)/
QuickSalesWords ==
  { <<"b","u","y">>, <<"s","y","s","t","e","m">>, <<"e","p","o","s">>,
    <<"p","o","s">>, <<"q","u","o","t","e">>, <<"p","r","i","c","e">>,
    <<"p","a","y","m","e","n","t">>,
    <<"r","e","s","t","a","u","r","a","n","t">>, <<"r","e","t","a","i","l">> }

IncludesAny(text, words) == \E w \in words : Includes(text, w)

Reply(status, kind) == [status |-> status, kind |-> kind]

\* res.json / res.status was never called
NoResponse == Reply(0, "none")

\* a default session that stands at the first step of the capture
DefaultSessionAtName == [step |-> "name", module |-> "General", lead |-> EmptyObj]

\* the session a fresh client gets
DefaultSession == [step |-> "none", module |-> "General", lead |-> EmptyObj]

\* insertion order of the keys of the store after store[key] = ...
KeyAdd(order, store, key) ==
  IF key \in DOMAIN store THEN order ELSE Append(order, key)

\* what a turn leaves behind
Outcome(store, order, log, rep, path) ==
  [sessions |-> store, keyOrder |-> order, leads |-> log, reply |-> rep,
   path |-> path]

\* handleSalesAgent: a quick link when a keyword occurs, else one of the
\* four texts of the sitemap search, which the site decides ("salesSiteSearch")
handleSalesAgent(message) ==
  LET lower == ToLowerCase(message)
      hits == SelectSeq(Indices(Len(quick)),
                        LAMBDA i : IncludesAny(lower, quick[i].k))
  IN IF hits # <<>>
       THEN [status |-> 200, kind |-> "salesQuickLink", link |-> quick[hits[1]].l]
       ELSE Reply(200, "salesSiteSearch")

\* quickSalesLookup: the sales reply or null (kind "null")
quickSalesLookup(message) ==
  IF IncludesAny(ToLowerCase(message), QuickSalesWords)
    THEN handleSalesAgent(message)
    ELSE Reply(200, "null")

handleSupportAgentV130(message) ==
  LET matches == findSupportMatches(message) IN
  IF Len(matches) = 1 THEN Reply(200, "supportAnswer")
  ELSE IF Len(matches) > 1 THEN Reply(200, "supportLinks")
  ELSE Reply(200, "supportUnsure")

quickSupportLookupV130(message) ==
  LET matches == findSupportMatches(message) IN
  IF Len(matches) = 0 THEN Reply(200, "null")
  ELSE IF Len(matches) = 1 THEN Reply(200, "supportAnswer")
  ELSE Reply(200, "supportLinks")

\* the turn of app.post("/api/chat") of v13.0
RouteV130(ip, message, context, reset) ==
  IF reset
    THEN Outcome(Put(sessions, ip, DefaultSession), KeyAdd(keyOrder, sessions, ip),
                 leads, Reply(200, "resetOk"), "reset")
  ELSE IF message = <<>>
    THEN Outcome(sessions, keyOrder, leads, Reply(400, "noMessage"), "badRequest")
  ELSE
    LET store == IF ip \in DOMAIN sessions THEN sessions
                 ELSE Put(sessions, ip, DefaultSession)
        order == KeyAdd(keyOrder, sessions, ip)
        s == store[ip]
        lower == Trim(ToLowerCase(message))
    IN
    IF lower \in RestartWords
      THEN Outcome(store, order, leads, Reply(200, "restart"), "restart")
    ELSE IF lower \in EndWords
      THEN Outcome(store, order, leads, Reply(200, "bye"), "end")
    ELSE IF context = "sales"
      THEN IF s.step # "none"
             THEN LET r == continueLeadCapture(s, message) IN
                  IF r.complete
                    THEN Outcome(Put(store, ip, [r.s EXCEPT !.step = "none"]), order,
                                 logJSON(leads, r.s.lead, now),
                                 Reply(200, "leadThanks"), "leadComplete")
                    ELSE Outcome(Put(store, ip, r.s), order, leads,
                                 Reply(200, r.text), "lead")
           ELSE IF IncludesAny(lower, PriceWordsV130)
             THEN Outcome(Put(store, ip, [s EXCEPT !.step = "name", !.lead = EmptyObj]),
                          order, leads, Reply(200, "askName"), "priceIntent")
           ELSE Outcome(store, order, leads, handleSalesAgent(message),
                        "salesAgent")
    ELSE IF context = "support"
      THEN Outcome(store, order, leads, handleSupportAgentV130(message), "support")
    ELSE IF context = "general"
      THEN LET salesResult == quickSalesLookup(message)
               supportResult == quickSupportLookupV130(message)
           IN IF salesResult.kind # "null"
                THEN Outcome(store, order, leads, salesResult, "generalSales")
              ELSE IF supportResult.kind # "null"
                THEN Outcome(store, order, leads, supportResult, "generalSupport")
              ELSE Outcome(store, order, leads, Reply(200, "clarify"), "generalNone")
    ELSE Outcome(store, order, leads, NoResponse, "noResponse")

(***************************************************************************)
(* The context router, v13.2 (src/server.js 1-398).  The release replaces  *)
(* the sales branch of the route and the two support functions of v13.0    *)
(* and keeps its other helpers.                                            *)
(***************************************************************************)
\* /(price|quote|cost|subscription|how much|pricing)/
PriceWordsV132 ==
  PriceWordsV130 \cup { <<"h","o","w"," ","m","u","c","h">>,
                       <<"p","r","i","c","i","n","g">> }

\* /^(yes|ok|sure|please|yeah|yep|y|sounds good|why not)$/i
ConfirmWords ==
  { <<"y","e","s">>, <<"o","k">>, <<"s","u","r","e">>,
    <<"p","l","e","a","s","e">>, <<"y","e","a","h">>, <<"y","e","p">>, <<"y">>,
    <<"s","o","u","n","d","s"," ","g","o","o","d">>,
    <<"w","h","y"," ","n","o","t">> }

\* /^(no|not now|later|maybe|n|nah)$/i
DeclineWords ==
  { <<"n","o">>, <<"n","o","t"," ","n","o","w">>, <<"l","a","t","e","r">>,
    <<"m","a","y","b","e">>, <<"n">>, <<"n","a","h">> }

\* the session handleSupportAgent and quickSupportLookup of v13.2 work on:
\* sessions[Object.keys(sessions)[0]]
FirstKey(order) == order[1]

\* handleSupportAgent of v13.2: the store it leaves and its reply
handleSupportAgentV132(store, order, message) ==
  LET key == FirstKey(order)
      s == store[key]
      matches == findSupportMatches(message)
      t == Trim(message)
      list == IF Has(s, "lastFaqList") THEN s.lastFaqList ELSE <<>>
      idx == ParseInt(t) - 1
  IN
  IF Flag(s, "awaitingFaqChoice") /\ AllDigits(t) /\ (idx + 1) \in DOMAIN list
    THEN [store |-> Put(store, key, Put(Put(s, "awaitingFaqChoice", FALSE),
                                        "lastFaqList", <<>>)),
          reply |-> [status |-> 200, kind |-> "supportAnswer",
                     title |-> list[idx + 1].title]]
  ELSE IF Len(matches) = 1
    THEN [store |-> Put(store, key, Put(s, "awaitingFaqChoice", FALSE)),
          reply |-> [status |-> 200, kind |-> "supportAnswer",
                     title |-> matches[1].title]]
  ELSE IF Len(matches) > 1
    THEN [store |-> Put(store, key, Put(Put(s, "awaitingFaqChoice", TRUE),
                                        "lastFaqList", matches)),
          reply |-> [status |-> 200, kind |-> "supportList",
                     options |-> [i \in 1..Len(matches) |-> matches[i].title]]]
  ELSE [store |-> store, reply |-> Reply(200, "supportUnsure")]

\* quickSupportLookup of v13.2: the store it leaves and its reply
quickSupportLookupV132(store, order, message) ==
  LET key == FirstKey(order)
      s == store[key]
      matches == findSupportMatches(message)
  IN
  IF Len(matches) = 0
    THEN [store |-> store, reply |-> Reply(200, "null")]
  ELSE IF Len(matches) = 1
    THEN [store |-> store,
          reply |-> [status |-> 200, kind |-> "supportAnswer",
                     title |-> matches[1].title]]
  ELSE [store |-> Put(store, key, Put(Put(s, "awaitingFaqChoice", TRUE),
                                      "lastFaqList", matches)),
        reply |-> [status |-> 200, kind |-> "supportList",
                   options |-> [i \in 1..Len(matches) |-> matches[i].title]]]

\* the turn of app.post("/api/chat") of v13.2
RouteV132(ip, message, context, reset) ==
  IF reset
    THEN Outcome(Put(sessions, ip, DefaultSession), KeyAdd(keyOrder, sessions, ip),
                 leads, Reply(200, "resetOk"), "reset")
  ELSE IF message = <<>>
    THEN Outcome(sessions, keyOrder, leads, Reply(400, "noMessage"), "badRequest")
  ELSE
    LET store == IF ip \in DOMAIN sessions THEN sessions
                 ELSE Put(sessions, ip, DefaultSession)
        order == KeyAdd(keyOrder, sessions, ip)
        s == store[ip]
        lower == Trim(ToLowerCase(message))
        priceIntent == IncludesAny(lower, PriceWordsV132)
    IN
    IF lower \in RestartWords
      THEN Outcome(store, order, leads, Reply(200, "restart"), "restart")
    ELSE IF lower \in EndWords
      THEN Outcome(store, order, leads, Reply(200, "bye"), "end")
    ELSE IF context = "sales"
      THEN IF s.step # "none"
             THEN LET r == continueLeadCapture(s, message) IN
                  IF r.complete
                    THEN Outcome(Put(store, ip,
                                     Put([r.s EXCEPT !.step = "none"],
                                         "awaitingPriceConfirm", FALSE)),
                                 order, logJSON(leads, r.s.lead, now),
                                 Reply(200, "leadThanks"), "leadComplete")
                    ELSE Outcome(Put(store, ip, r.s), order, leads,
                                 Reply(200, r.text), "lead")
           ELSE IF priceIntent /\ ~Flag(s, "awaitingPriceConfirm")
                   /\ ~Flag(s, "stepStarted")
             THEN Outcome(Put(store, ip, Put(s, "awaitingPriceConfirm", TRUE)),
                          order, leads, Reply(200, "offerDetails"), "priceIntent")
           ELSE IF Flag(s, "awaitingPriceConfirm") /\ lower \in ConfirmWords
             THEN Outcome(Put(store, ip,
                              Put(Put([s EXCEPT !.step = "name", !.lead = EmptyObj],
                                      "awaitingPriceConfirm", FALSE),
                                  "stepStarted", TRUE)),
                          order, leads, Reply(200, "askName"), "priceConfirmed")
           ELSE IF Flag(s, "awaitingPriceConfirm") /\ lower \in DeclineWords
             THEN Outcome(Put(store, ip, Put(s, "awaitingPriceConfirm", FALSE)),
                          order, leads, Reply(200, "seeProducts"), "priceDeclined")
           ELSE IF Flag(s, "awaitingPriceConfirm")
             THEN Outcome(store, order, leads, Reply(200, "confirmAgain"),
                          "priceUnclear")
           ELSE Outcome(store, order, leads, handleSalesAgent(message),
                        "salesAgent")
    ELSE IF context = "support"
      THEN LET r == handleSupportAgentV132(store, order, message) IN
           Outcome(r.store, order, leads, r.reply, "support")
    ELSE IF context = "general"
      THEN LET salesResult == quickSalesLookup(message)
               r == quickSupportLookupV132(store, order, message)
           IN IF salesResult.kind # "null"
                THEN Outcome(store, order, leads, salesResult, "generalSales")
              ELSE IF r.reply.kind # "null"
                THEN Outcome(r.store, order, leads, r.reply, "generalSupport")
              ELSE Outcome(store, order, leads, Reply(200, "clarify"), "generalNone")
    ELSE Outcome(store, order, leads, NoResponse, "noResponse")

Request(ip, message, context, reset, path) ==
  [ip |-> ip, message |-> message, context |-> context, reset |-> reset,
   path |-> path]

ChatV130(ip, message, context, reset) ==
  /\ version = "v13.0"
  /\ now < MaxClock
  /\ \E r \in {RouteV130(ip, message, context, reset)} :
       /\ sessions' = r.sessions
       /\ keyOrder' = r.keyOrder
       /\ leads' = r.leads
       /\ reply' = r.reply
       /\ turn' = Request(ip, message, context, reset, r.path)
  /\ now' = now + 1
  /\ UNCHANGED <<version, faqSales, sessionStore, earlier>>

ChatV132(ip, message, context, reset) ==
  /\ version = "v13.2"
  /\ now < MaxClock
  /\ \E r \in {RouteV132(ip, message, context, reset)} :
       /\ sessions' = r.sessions
       /\ keyOrder' = r.keyOrder
       /\ leads' = r.leads
       /\ reply' = r.reply
       /\ turn' = Request(ip, message, context, reset, r.path)
  /\ now' = now + 1
  /\ UNCHANGED <<version, faqSales, sessionStore, earlier>>

InitLead ==
  /\ version \in {"v13.0", "v13.2"}
  /\ sessions = EmptyObj
  /\ keyOrder = <<>>
  /\ leads = <<>>
  /\ now = 0
  /\ faqSales = <<>>
  /\ reply = NoResponse
  /\ turn = Request("", <<>>, "absent", FALSE, "init")
  /\ sessionStore = EmptyObj
  /\ earlier = EmptyObj

\* the requests a run draws from
LeadRequests ==
  {<<ip, message, context, FALSE>> :
     ip \in LeadIPs, message \in SalesMsgs, context \in {"sales"}}
  \cup {<<ip, message, context, FALSE>> :
     ip \in LeadIPs, message \in OtherMsgs, context \in Contexts \ {"sales"}}
  \cup {<<ip, message, "sales", TRUE>> :
     ip \in LeadIPs, message \in {<<>>, <<"p","r","i","c","e">>}}

NextLead ==
  \/ \E q \in LeadRequests : ChatV130(q[1], q[2], q[3], q[4])
  \/ \E q \in LeadRequests : ChatV132(q[1], q[2], q[3], q[4])

SpecLead == InitLead /\ [][NextLead]_vars

(***************************************************************************)
(* JavaScript values whose type matters: ids and branch targets of the     *)
(* FAQ file are numbers or strings, and === tells them apart.              *)
(***************************************************************************)
Num(n) == [num |-> n]
Str(x) == [str |-> x]
Undefined == [undef |-> TRUE]

IsNum(v) == DOMAIN v = {"num"}
IsStr(v) == DOMAIN v = {"str"}

\* truthiness of a number, a string or undefined
Truthy(v) == (IsNum(v) /\ v.num # 0) \/ (IsStr(v) /\ v.str # <<>>)

\* o.k, undefined when absent
Get(o, k) == IF Has(o, k) THEN o[k] ELSE Undefined

DigitChar(d) ==
  CASE d = 0 -> "0" [] d = 1 -> "1" [] d = 2 -> "2" [] d = 3 -> "3"
    [] d = 4 -> "4" [] d = 5 -> "5" [] d = 6 -> "6" [] d = 7 -> "7"
    [] d = 8 -> "8" [] d = 9 -> "9"

RECURSIVE Decimal(_)
Decimal(n) ==
  IF n < 10 THEN <<DigitChar(n)>>
  ELSE Decimal(n \div 10) \o <<DigitChar(n % 10)>>

\* String(v), as a string of the model
JsString(v) ==
  IF IsNum(v) THEN Decimal(v.num)
  ELSE IF IsStr(v) THEN v.str
  ELSE <<"u","n","d","e","f","i","n","e","d">>

(***************************************************************************)
(* The FAQ corpus.                                                         *)
(***************************************************************************)
\* faqs_sales.json, a branching corpus: targets by id, by title, by URL,
\* unresolvable and absent; two titles with one normalised form; one entry
\* without title
RawCorpusA ==
  << [id |-> Num(1),
      title |-> <<"P","O","S"," ","H","a","r","d","w","a","r","e">>,
      intro |-> <<"T","i","l","l"," ","a","n","d"," ","p","r","i","n","t","e",
            "r">>,
      steps |-> << <<"P","l","u","g"," ","i","n"," ","t","h","e"," ","t","i",
            "l","l">> >>,
      next |-> [question |-> <<"N","e","e","d"," ","a"," ","t","i","l","l",
            "?">>,
                options |-> [yes |-> Num(2), no |-> Str(<<"g","i","f","t","-",
                      "v","o","u","c","h","e","r","s">>)]]],
     [id |-> Num(2),
      title |-> <<"T","i","l","l">>,
      intro |-> <<"h","a","r","d","w","a","r","e"," ","h","a","r","d","w","a",
            "r","e"," ","h","a","r","d","w","a","r","e">>,
      steps |-> <<>>,
      next |-> [question |-> <<"M","o","r","e","?">>,
                options |-> [yes |-> Str(<<"/","t","i","l","l",".","h","t",
                      "m","l">>), no |-> Num(99)]]],
     [id |-> Str(<<"3">>),
      title |-> <<"G","i","f","t","-","V","o","u","c","h","e","r","s">>,
      intro |-> <<"G","i","f","t"," ","c","a","r","d","s">>,
      next |-> [question |-> <<"S","e","l","l"," ","o","n","l","i","n","e",
            "?">>,
                options |-> [no |-> Num(3)]]],
     [id |-> Num(5),
      intro |-> <<"n","o"," ","t","i","t","l","e">>],
     [id |-> Num(6),
      title |-> <<"P","O","S"," ","H","a","r","d","w","a","r","e","!">>,
      intro |-> <<"p","o","s"," ","p","o","s"," ","p","o","s">>,
      link |-> <<"/","p","o","s",".","h","t","m","l">>] >>

\* faqs_sales.json, nine entries that all match the query "till", two of
\* them twice
RawCorpusB ==
  << [id |-> Num(11),
      title |-> <<"T","i","l","l"," ","a">>,
      steps |-> <<>>],
     [id |-> Num(12),
      title |-> <<"T","i","l","l"," ","b">>,
      steps |-> <<>>],
     [id |-> Num(13),
      title |-> <<"T","i","l","l"," ","c">>,
      steps |-> <<>>],
     [id |-> Num(14),
      title |-> <<"T","i","l","l"," ","d">>,
      steps |-> <<>>],
     [id |-> Num(15),
      title |-> <<"T","i","l","l"," ","e">>,
      intro |-> <<"t","h","e"," ","t","i","l","l">>],
     [id |-> Num(16),
      title |-> <<"T","i","l","l"," ","f">>,
      steps |-> <<>>],
     [id |-> Num(17),
      title |-> <<"T","i","l","l"," ","g">>,
      intro |-> <<"t","h","e"," ","t","i","l","l">>],
     [id |-> Num(18),
      title |-> <<"T","i","l","l"," ","h">>,
      steps |-> <<>>],
     [id |-> Num(19),
      title |-> <<"T","i","l","l"," ","i">>,
      steps |-> <<>>] >>

\* faqs_sales.json, one entry whose branch leads to two pages, one of them
\* with a fragment after the file name
RawCorpusC ==
  << [id |-> Num(21),
      title |-> <<"T","i","l","l">>,
      intro |-> <<"A","l","l"," ","a","b","o","u","t"," ","t","h","e"," ","t","i","l","l">>,
      next |-> [question |-> <<"S","e","e"," ","t","h","e"," ","f","e","e","s","?">>,
                options |-> [yes |-> Str(<<"/","t","i","l","l",".","h","t","m","l","#","f","e","e","s">>),
                             no |-> Str(<<"/","t","i","l","l",".","h","t","m","l">>)]]] >>

RawCorpora == {RawCorpusA, RawCorpusB, RawCorpusC}

\* the filter of the loaders of v14.6, v14.9 and v15.1c
WellFormed(f) ==
  /\ Has(f, "title") /\ f.title # <<>>
  /\ Has(f, "steps") \/ (Has(f, "intro") /\ f.intro # <<>>)

\* v14.6 and v14.9 keep the ids as they are in the file
LoadRaw(raw) == SelectSeq(raw, WellFormed)

\* v15.1c: .map((f) => ({ ...f, id: String(f.id) }))
LoadV151c(raw) ==
  LET kept == SelectSeq(raw, WellFormed)
  IN [i \in 1..Len(kept) |-> Put(kept[i], "id", Str(JsString(Get(kept[i], "id"))))]

\* v15.2: .filter((f) => f && f.title), ids as strings
LoadV152(raw) ==
  LET kept == SelectSeq(raw, LAMBDA f : Has(f, "title") /\ f.title # <<>>)
  IN [i \in 1..Len(kept) |-> Put(kept[i], "id", Str(JsString(Get(kept[i], "id"))))]

(***************************************************************************)
(* Weighted search (findSalesMatches; inline in v15.2).                    *)
(***************************************************************************)
\* a record counts as a match from this score on
ScoreThreshold == 6
\* top score from which the best match is taken without asking
AutoSelectScore == 12
\* options shown in a multi-match reply
MaxOptions == 8

\* [title, intro, ...steps].join(" ").toLowerCase()
faqText(faq) ==
  ToLowerCase(JoinSpace(<<faq.title, IF Has(faq, "intro") THEN faq.intro ELSE <<>> >>
                        \o (IF Has(faq, "steps") THEN faq.steps ELSE <<>>)))

\* new RegExp(`\\b${w}\\b`, "g") throws a SyntaxError for a word with an
\* unclosed group; the inputs of the model hold no ")"
RegexThrows(w) == "(" \in Range(w)

\* \b between positions p and p + 1 of text
WordBoundary(text, p) ==
  LET left == p >= 1 /\ p <= Len(text) /\ IsWordChar(text[p])
      right == p + 1 >= 1 /\ p + 1 <= Len(text) /\ IsWordChar(text[p + 1])
  IN left # right

\* /\bw\b/ matches at position i; w is made of characters that stand for
\* themselves in a pattern (letters, digits, "!", "-")
WordAt(text, w, i) ==
  /\ OccursAt(text, w, i)
  /\ WordBoundary(text, i - 1)
  /\ WordBoundary(text, i + Len(w) - 1)

\* (text.match(new RegExp(`\\b${w}\\b`, "g")) || []).length, scanning from i
RECURSIVE CountMatchesFrom(_, _, _)
CountMatchesFrom(text, w, i) ==
  IF i + Len(w) - 1 > Len(text) THEN 0
  ELSE IF WordAt(text, w, i) THEN 1 + CountMatchesFrom(text, w, i + Len(w))
  ELSE CountMatchesFrom(text, w, i + 1)

CountMatches(text, w) == CountMatchesFrom(text, w, 1)

RECURSIVE SumCounts(_, _)
SumCounts(text, words) ==
  IF words = <<>> THEN 0
  ELSE CountMatches(text, Head(words)) + SumCounts(text, Tail(words))

\* the score the map callback gives faq for the lowercased, trimmed query
score(query, faq) ==
  LET text == faqText(faq) IN
    (IF ToLowerCase(faq.title) = query THEN 10 ELSE 0)
    + (IF Includes(text, query) THEN 6 ELSE 0)
    + 2 * SumCounts(text, LongWords(query))

\* does scoring the corpus for query throw
scoreThrows(corpus, query) ==
  corpus # <<>> /\ \E w \in Range(LongWords(query)) : RegexThrows(w)

\* InsertDesc putting a record before the records of equal score
RECURSIVE InsertDescTiesFirst(_, _)
InsertDescTiesFirst(sorted, x) ==
  IF sorted = <<>> THEN <<x>>
  ELSE IF Head(sorted).score > x.score
    THEN <<Head(sorted)>> \o InsertDescTiesFirst(Tail(sorted), x)
  ELSE <<x>> \o sorted

RECURSIVE InsertDesc(_, _)
InsertDesc(sorted, x) ==
  IF sorted = <<>> THEN <<x>>
  ELSE IF Head(sorted).score >= x.score
    THEN <<Head(sorted)>> \o InsertDesc(Tail(sorted), x)
  ELSE <<x>> \o sorted

\* .sort((a, b) => b.score - a.score); Array.prototype.sort is stable in
\* every Node release that runs this code (ES modules, optional chaining)
RECURSIVE SortDesc(_)
SortDesc(list) ==
  IF list = <<>> THEN <<>>
  ELSE InsertDesc(SortDesc(SubSeq(list, 1, Len(list) - 1)), list[Len(list)])

\* scored without the filter on the score
scoredUnfiltered(corpus, query) ==
  SortDesc([i \in 1..Len(corpus) |->
              [faq |-> corpus[i], score |-> score(query, corpus[i])]])

\* .map(score).filter((r) => r.score >= 6).sort(...)
scored(corpus, query) ==
  LET all == [i \in 1..Len(corpus) |->
                [faq |-> corpus[i], score |-> score(query, corpus[i])]]
  IN SortDesc(SelectSeq(all, LAMBDA r : r.score >= ScoreThreshold))

\* findSalesMatches of v14.6 and v14.9: the matching records, best first
findSalesMatchesV14(corpus, message) ==
  LET query == Trim(ToLowerCase(message))
      list == scored(corpus, query)
  IN IF query = <<>> THEN <<>>
     ELSE [i \in 1..Len(list) |-> list[i].faq]

\* findSalesMatches of v15.1c: the matching records with their score
findSalesMatches(corpus, message) ==
  LET query == Trim(ToLowerCase(message))
      list == scored(corpus, query)
  IN IF query = <<>> THEN <<>>
     ELSE [i \in 1..Len(list) |-> Put(list[i].faq, "score", list[i].score)]

\* does findSalesMatches throw
findSalesMatchesThrows(corpus, message) ==
  LET query == Trim(ToLowerCase(message))
  IN query # <<>> /\ scoreThrows(corpus, query)

(***************************************************************************)
(* The sales FAQ handlers: v14.6 (src/unnamed/part_006), v14.9             *)
(* (src/unnamed/part_004), v15.1c and v15.2 (src/server.js).               *)
(***************************************************************************)
FaqVersions == {"v14.6", "v14.9", "v15.1c", "v15.2"}

\* req.cookies.sessionId, or the random id a request without cookie gets
FaqSessionIds == {"s1"}

\* the messages of the chat widget
FaqMsgs ==
  { <<>>,
    <<" ">>,
    <<"Y","e","s"," ","p","l","e","a","s","e">>,
    <<"n","o">>,
    <<"m","a","y","b","e">>,
    <<"I"," ","d","o","n","'","t"," ","k","n","o","w">>,
    <<"N","o","t"," ","y","e","s">>,
    <<"T","i","l","l">>,
    <<"P","O","S"," ","h","a","r","d","w","a","r","e","!">>,
    <<"h","a","r","d","w","a","r","e">>,
    <<"T","i","l","l","!">>,
    <<"t","i","l","l"," ","p","r","i","n","t","e","r">>,
    <<"p","r","i","n","t","e","r"," ","(","n","e","w">> }

YesWord == <<"y","e","s">>
NoWord == <<"n","o">>
DotHtml == <<".","h","t","m","l">>
YesOrNo == <<" ","(","Y","e","s"," ","o","r"," ","N","o",")">>

StartsWith(s, p) == OccursAt(s, p, 1)
EndsWith(s, p) == OccursAt(s, p, Len(s) - Len(p) + 1)

\* /^https?:\/\//.test(t)
IsHttpUrl(t) == StartsWith(t, <<"h","t","t","p",":","/","/">>) \/ StartsWith(t, <<"h","t","t","p","s",":","/","/">>)

\* Array.prototype.find, given the answers of the callback in array order:
\* the index of the first element that passes, 0 for undefined
FindIdx(passes) ==
  LET hits == SelectSeq(Indices(Len(passes)), LAMBDA i : passes[i])
  IN IF hits = <<>> THEN 0 ELSE hits[1]

\* currentFAQ?.next?.options
HasOptions(faq) == Has(faq, "next") /\ Has(faq.next, "options")

\* (t || "").toLowerCase().replace(/[^\w\s]/g, "").trim()
normalise(t) ==
  Trim(SelectSeq(ToLowerCase(t), LAMBDA c : IsWordChar(c) \/ c \in Whitespace))

\* the reply of a request whose handler threw: res.status(500)
ErrorReply == Reply(500, "error")

\* a reply that is one text
TextReply(kind, text) == [status |-> 200, kind |-> kind, text |-> text]

NoMatchReply == TextReply("nomatch", <<"c","o","n","t","a","c","t"," ","s","a","l","e","s"," ","o","r"," ","b","r","o","w","s","e"," ","F","A","Q","s">>)

\* `${question} (Yes or No)`
Reprompt(faq) == TextReply("reprompt", faq.next.question \o YesOrNo)

\* the anchor to an external page
LinkReply(target) == TextReply("link", target)

\* { type: "options", intro, options }
OptionsReply(options) == [status |-> 200, kind |-> "options", options |-> options]

\* matches.slice(0, 8).map((m, i) => ({ label: m.title, index: i + 1 }))
optionsOf(matches) ==
  LET trimmed == Slice0(matches, MaxOptions)
  IN [i \in 1..Len(trimmed) |-> [label |-> trimmed[i].title, index |-> i]]

\* the steps showFAQ numbers and joins
stepsOf(entry) == IF Has(entry, "steps") THEN entry.steps ELSE <<>>

introOf(entry) == IF Has(entry, "intro") THEN entry.intro ELSE <<>>

\* entry.link || "#"
linkOf(entry) ==
  IF Has(entry, "link") /\ entry.link # <<>> THEN entry.link ELSE <<"#">>

\* the text showFAQ builds: title, intro, steps and the closing prompt
FaqText(entry, prompt) ==
  [status |-> 200, kind |-> "faq", title |-> entry.title,
   intro |-> introOf(entry), steps |-> stepsOf(entry), prompt |-> prompt]

\* showFAQ of v14.6: always a text
showFAQV146(entry) ==
  FaqText(entry, IF Has(entry, "next")
                   THEN [question |-> entry.next.question \o YesOrNo]
                   ELSE [link |-> linkOf(entry)])

\* entry.next?.question
HasQuestion(entry) ==
  Has(entry, "next") /\ Has(entry.next, "question") /\ entry.next.question # <<>>

YesNoReply(entry) ==
  [status |-> 200, kind |-> "yesno", title |-> entry.title,
   intro |-> introOf(entry), steps |-> stepsOf(entry),
   question |-> entry.next.question]

\* showFAQ of v14.9 and v15.1c: a yes/no object for a record with a question
showFAQ(entry) ==
  IF HasQuestion(entry) THEN YesNoReply(entry) ELSE showFAQV146(entry)

\* showFAQ of v15.2
showFAQV152(entry) ==
  IF HasQuestion(entry) THEN YesNoReply(entry)
  ELSE FaqText(entry, [link |-> linkOf(entry)])

\* what a turn of a FAQ handler leaves behind
\* an outcome whose reply depends on how many sessions the store holds
FaqOutcomeByLoad(store, order, rep, path) ==
  [sessions |-> store, keyOrder |-> order,
   reply |-> IF Len(order) > 1 THEN NoMatchReply ELSE rep, path |-> path]

FaqOutcome(store, order, rep, path) ==
  [sessions |-> store, keyOrder |-> order, reply |-> rep, path |-> path]

\* a classification that tests "no" before "yes"
nextTargetNoFirst(options, lower) ==
  IF Includes(lower, NoWord) THEN Get(options, "no")
  ELSE IF Includes(lower, YesWord) THEN Get(options, "yes")
  ELSE Undefined

\* let nextTarget = null; if (lower.includes("yes")) nextTarget = options.yes;
\* else if (lower.includes("no")) nextTarget = options.no
nextTargetOf(options, lower) ==
  IF Includes(lower, YesWord) THEN Get(options, "yes")
  ELSE IF Includes(lower, NoWord) THEN Get(options, "no")
  ELSE Undefined

\* if (!sessions[sessionId]) sessions[sessionId] = {}
Ensure(store, sessionId) ==
  IF Has(store, sessionId) THEN store ELSE Put(store, sessionId, EmptyObj)

(***************************************************************************)
(* handleSalesFAQ of v14.6 (src/unnamed/part_006, lines 174-237).          *)
(***************************************************************************)
handleSalesFAQV146(store, order, corpus, message, sessionId) ==
  LET store1 == Ensure(store, sessionId)
      order1 == KeyAdd(order, store, sessionId)
      s == store1[sessionId]
      lower == Trim(ToLowerCase(message))
      cur == Get(s, "currentId")
      ci == IF Truthy(cur)
              THEN FindIdx([n \in DOMAIN corpus |-> LET f == corpus[n] IN Get(f, "id") = cur]) ELSE 0
      \* s.currentId = nextId; return showFAQ(faqSales.find(...)): showFAQ
      \* reads entry.steps of undefined when no record has that id
      branch(nextId) ==
        LET ni == FindIdx([n \in DOMAIN corpus |-> LET f == corpus[n] IN Get(f, "id") = nextId])
            st == Put(store1, sessionId, Put(s, "currentId", nextId))
        IN IF ni = 0 THEN FaqOutcome(st, order1, ErrorReply, "branchThrow")
           ELSE FaqOutcome(st, order1, showFAQV146(corpus[ni]), "branch")
      select(entry, path) ==
        FaqOutcome(Put(store1, sessionId, Put(s, "currentId", Get(entry, "id"))),
                   order1, showFAQV146(entry), path)
      exactMatch == FindIdx([n \in DOMAIN corpus |-> LET f == corpus[n] IN ToLowerCase(f.title) = lower])
      matches == findSalesMatchesV14(corpus, message)
  IN IF ci # 0 /\ HasOptions(corpus[ci])
       THEN IF Includes(lower, YesWord)
              THEN branch(Get(corpus[ci].next.options, "yes"))
            ELSE IF Includes(lower, NoWord)
              THEN branch(Get(corpus[ci].next.options, "no"))
            ELSE FaqOutcome(store1, order1, Reprompt(corpus[ci]), "branchReprompt")
     ELSE IF exactMatch # 0 THEN select(corpus[exactMatch], "exact")
     ELSE IF findSalesMatchesThrows(corpus, message)
       THEN FaqOutcome(store1, order1, ErrorReply, "scoreThrow")
     ELSE IF Len(matches) = 1 THEN select(matches[1], "single")
     ELSE IF Len(matches) > 1
       THEN FaqOutcome(
              Put(store1, sessionId,
                  Put(Put(s, "awaitingChoice", TRUE), "lastFaqList", matches)),
              order1, OptionsReply(optionsOf(matches)), "options")
     ELSE FaqOutcome(store1, order1, NoMatchReply, "nomatch")

(***************************************************************************)
(* handleSalesFAQ of v14.9 (src/unnamed/part_004, lines 170-252).          *)
(***************************************************************************)
handleSalesFAQV149(store, order, corpus, message, sessionId) ==
  LET store1 == Ensure(store, sessionId)
      order1 == KeyAdd(order, store, sessionId)
      s == store1[sessionId]
      lower == Trim(ToLowerCase(message))
      cur == Get(s, "currentId")
      ci == IF Truthy(cur)
              THEN FindIdx([n \in DOMAIN corpus |-> LET f == corpus[n] IN Get(f, "id") = cur]) ELSE 0
      select(entry, path) ==
        FaqOutcome(Put(store1, sessionId, Put(s, "currentId", Get(entry, "id"))),
                   order1, showFAQ(entry), path)
      reprompt ==
        FaqOutcome(store1, order1, Reprompt(corpus[ci]), "branchReprompt")
      nextTarget == nextTargetOf(corpus[ci].next.options, lower)
      byNumber == FindIdx([n \in DOMAIN corpus |-> LET f == corpus[n] IN Get(f, "id") = nextTarget])
      byId == FindIdx([n \in DOMAIN corpus |-> LET f == corpus[n] IN Get(f, "id") = nextTarget])
      byTitle ==
        FindIdx([n \in DOMAIN corpus |-> LET f == corpus[n] IN
          \/ ToLowerCase(f.title) = ToLowerCase(nextTarget.str)
          \/ JsString(Get(f, "id")) = nextTarget.str])
      byString == IF byId # 0 THEN byId ELSE byTitle
      exact == FindIdx([n \in DOMAIN corpus |-> LET f == corpus[n] IN normalise(f.title) = normalise(lower)])
      matches == findSalesMatchesV14(corpus, message)
  IN IF ci # 0 /\ HasOptions(corpus[ci])
       THEN IF ~Truthy(nextTarget) THEN reprompt
            ELSE IF IsNum(nextTarget)
              THEN IF byNumber # 0 THEN select(corpus[byNumber], "branch")
                   ELSE reprompt
            ELSE IF byString # 0 THEN select(corpus[byString], "branch")
            ELSE IF IsHttpUrl(nextTarget.str) \/ EndsWith(nextTarget.str, DotHtml)
              THEN FaqOutcome(store1, order1, LinkReply(nextTarget.str),
                              "branchLink")
            ELSE reprompt
     ELSE IF exact # 0 THEN select(corpus[exact], "exact")
     ELSE IF findSalesMatchesThrows(corpus, message)
       THEN FaqOutcome(store1, order1, ErrorReply, "scoreThrow")
     ELSE IF Len(matches) = 1 THEN select(matches[1], "single")
     ELSE IF Len(matches) > 1
       THEN FaqOutcome(
              Put(store1, sessionId,
                  Put(Put(s, "awaitingChoice", TRUE), "lastFaqList", matches)),
              order1, OptionsReply(optionsOf(matches)), "options")
     ELSE FaqOutcome(store1, order1, NoMatchReply, "nomatch")

(***************************************************************************)
(* handleSalesFAQ of v15.1c (src/server.js, lines 795-883).                *)
(***************************************************************************)
\* confident without the test of the top score
confidentRatioOnly(top, next) ==
  IF next # 0 THEN 10 * top >= 19 * next ELSE FALSE

\* confidence >= 1.9 || top >= 12, for a list of at least two scores;
\* top / next >= 1.9 is compared as 10 * top >= 19 * next
confident(top, next) ==
  \/ (IF next # 0 THEN 10 * top >= 19 * next ELSE FALSE)
  \/ top >= AutoSelectScore

handleSalesFAQV151c(store, order, corpus, message, sessionId) ==
  LET store1 == Ensure(store, sessionId)
      order1 == KeyAdd(order, store, sessionId)
      s == store1[sessionId]
      lower == Trim(ToLowerCase(message))
      cur == Get(s, "currentId")
      ci == IF Truthy(cur)
              THEN FindIdx([n \in DOMAIN corpus |-> LET f == corpus[n] IN Get(f, "id") = Str(JsString(cur))])
              ELSE 0
      select(entry, path) ==
        FaqOutcome(Put(store1, sessionId, Put(s, "currentId", Get(entry, "id"))),
                   order1, showFAQ(entry), path)
      nextTarget == nextTargetOf(corpus[ci].next.options, lower)
      targetId == Trim(JsString(nextTarget))
      byId == FindIdx([n \in DOMAIN corpus |-> LET f == corpus[n] IN Get(f, "id") = Str(targetId)])
      byTitle ==
        FindIdx([n \in DOMAIN corpus |-> LET f == corpus[n] IN
          Trim(ToLowerCase(f.title)) = ToLowerCase(targetId)])
      nextFAQ == IF byId # 0 THEN byId ELSE byTitle
      exact == FindIdx([n \in DOMAIN corpus |-> LET f == corpus[n] IN normalise(f.title) = normalise(lower)])
      list == findSalesMatches(corpus, message)
  IN IF ci # 0 /\ HasOptions(corpus[ci]) /\ Truthy(nextTarget)
       THEN IF nextFAQ = 0 /\ Includes(targetId, DotHtml)
              THEN FaqOutcome(store1, order1, LinkReply(targetId), "branchLink")
            ELSE IF nextFAQ # 0 THEN select(corpus[nextFAQ], "branch")
            ELSE FaqOutcome(store1, order1, Reprompt(corpus[ci]),
                            "branchReprompt")
     ELSE IF exact # 0 THEN select(corpus[exact], "exact")
     ELSE IF findSalesMatchesThrows(corpus, message)
       THEN FaqOutcome(store1, order1, ErrorReply, "scoreThrow")
     ELSE IF list = <<>>
       THEN FaqOutcome(store1, order1, NoMatchReply, "nomatch")
     ELSE IF Len(list) > 1 /\ confident(list[1].score, list[2].score)
       THEN select(list[1], "confident")
     ELSE IF Len(list) = 1 THEN select(list[1], "single")
     ELSE FaqOutcome(store1, order1, OptionsReply(optionsOf(list)), "options")

(***************************************************************************)
(* v15.2 (src/server.js, lines 481-615): the sessions live in              *)
(* cache/sessions.json; the variable sessions is the object that file      *)
(* holds.                                                                  *)
(***************************************************************************)
\* JSON.stringify leaves out the properties whose value is undefined
saveSessions(store) ==
  [id \in DOMAIN store |->
     [k \in {x \in DOMAIN store[id] : store[id][x] # Undefined} |-> store[id][k]]]

\* JSON.parse of the text saveSessions wrote
loadSessions(file) == file

\* sessions[id] || {}
getSession(file, id) ==
  IF Has(loadSessions(file), id) THEN loadSessions(file)[id] ELSE EmptyObj

\* the merged object alone, the fields of the session dropped
MergeReplace(old, data) == data

\* { ...(sessions[id] || {}), ...data }
Merge(old, data) ==
  [k \in (DOMAIN old) \cup (DOMAIN data) |->
     IF k \in DOMAIN data THEN data[k] ELSE old[k]]

updateSession(file, id, data) ==
  saveSessions(Put(loadSessions(file), id, Merge(getSession(file, id), data)))

\* options of v15.2: scored.slice(0, 8).map((m) => ({ label: m.f.title }))
optionsOfV152(list) ==
  LET trimmed == Slice0(list, MaxOptions)
  IN [i \in 1..Len(trimmed) |-> [label |-> trimmed[i].faq.title]]

handleSalesFAQV152(file, order, corpus, message, sessionId) ==
  LET session == getSession(file, sessionId)
      lower == Trim(ToLowerCase(message))
      cur == Get(session, "currentId")
      ci == IF Truthy(cur)
              THEN FindIdx([n \in DOMAIN corpus |-> LET f == corpus[n] IN Get(f, "id") = Str(JsString(cur))])
              ELSE 0
      select(entry, path) ==
        FaqOutcome(updateSession(file, sessionId,
                     [k \in {"currentId"} |-> Get(entry, "id")]),
                   KeyAdd(order, file, sessionId), showFAQV152(entry), path)
      nextTarget == nextTargetOf(corpus[ci].next.options, lower)
      nextFAQ ==
        FindIdx([n \in DOMAIN corpus |-> LET f == corpus[n] IN
          JsString(Get(f, "id")) = JsString(nextTarget)])
      isLink == IsStr(nextTarget) /\ Includes(nextTarget.str, DotHtml)
      exact == FindIdx([n \in DOMAIN corpus |-> LET f == corpus[n] IN normalise(f.title) = normalise(lower)])
      list == scored(corpus, lower)
  IN IF ci # 0 /\ HasOptions(corpus[ci]) /\ Truthy(nextTarget)
          /\ (nextFAQ # 0 \/ isLink)
       THEN IF nextFAQ # 0 THEN select(corpus[nextFAQ], "branch")
            ELSE FaqOutcome(file, order, LinkReply(nextTarget.str), "branchLink")
     ELSE IF exact # 0 THEN select(corpus[exact], "exact")
     ELSE IF scoreThrows(corpus, lower)
       THEN FaqOutcome(file, order, ErrorReply, "scoreThrow")
     ELSE IF list = <<>> THEN FaqOutcome(file, order, NoMatchReply, "nomatch")
     ELSE IF Len(list) > 1 /\ confident(list[1].score, list[2].score)
       THEN select(list[1].faq, "confident")
     ELSE IF Len(list) = 1 THEN select(list[1].faq, "single")
     ELSE FaqOutcome(file, order, OptionsReply(optionsOfV152(list)), "options")

(***************************************************************************)
(* app.post("/api/chat") of the four FAQ releases: the handler's reply, or *)
(* status 500 when it throws.                                              *)
(***************************************************************************)
FaqTurn(r, sessionId, message) ==
  /\ sessions' = r.sessions
  /\ keyOrder' = r.keyOrder
  /\ reply' = r.reply
  /\ turn' = Request(sessionId, message, "absent", FALSE, r.path)
  /\ UNCHANGED <<version, faqSales, leads, now, sessionStore, earlier>>

ChatV146(sessionId, message) ==
  /\ version = "v14.6"
  /\ \E r \in {handleSalesFAQV146(sessions, keyOrder, faqSales, message,
                                  sessionId)} :
       FaqTurn(r, sessionId, message)

ChatV149(sessionId, message) ==
  /\ version = "v14.9"
  /\ \E r \in {handleSalesFAQV149(sessions, keyOrder, faqSales, message,
                                  sessionId)} :
       FaqTurn(r, sessionId, message)

ChatV151c(sessionId, message) ==
  /\ version = "v15.1c"
  /\ \E r \in {handleSalesFAQV151c(sessions, keyOrder, faqSales, message,
                                   sessionId)} :
       FaqTurn(r, sessionId, message)

ChatV152(sessionId, message) ==
  /\ version = "v15.2"
  /\ \E r \in {handleSalesFAQV152(sessions, keyOrder, faqSales, message,
                                  sessionId)} :
       FaqTurn(r, sessionId, message)

\* the corpus a release loads from faqs_sales.json
LoadFaqs(v, raw) ==
  CASE v = "v14.6" -> LoadRaw(raw)
    [] v = "v14.9" -> LoadRaw(raw)
    [] v = "v15.1c" -> LoadV151c(raw)
    [] v = "v15.2" -> LoadV152(raw)

InitFaq ==
  /\ version \in FaqVersions
  /\ \E raw \in RawCorpora : faqSales = LoadFaqs(version, raw)
  /\ sessions = EmptyObj
  /\ keyOrder = <<>>
  /\ leads = <<>>
  /\ now = 0
  /\ reply = NoResponse
  /\ turn = Request("", <<>>, "absent", FALSE, "init")
  /\ sessionStore = EmptyObj
  /\ earlier = EmptyObj

NextFaq ==
  \/ \E sessionId \in FaqSessionIds, message \in FaqMsgs :
       ChatV146(sessionId, message)
  \/ \E sessionId \in FaqSessionIds, message \in FaqMsgs :
       ChatV149(sessionId, message)
  \/ \E sessionId \in FaqSessionIds, message \in FaqMsgs :
       ChatV151c(sessionId, message)
  \/ \E sessionId \in FaqSessionIds, message \in FaqMsgs :
       ChatV152(sessionId, message)

SpecFaq == InitFaq /\ [][NextFaq]_vars

(***************************************************************************)
(* The support agent with numbered choices: v13.6 (src/unnamed/part_002)   *)
(* and v14.0 (src/server.js, third program), next to v13.2.                *)
(***************************************************************************)
SupportVersions == {"v13.2", "v13.6", "v14.0"}

\* session keys: the cookie sessionId (v13.6, v14.0) or the client address
\* (v13.2); a request without cookie gets a random id, which is one of
\* these as well
SupportSessionIds == {"a", "b"}

\* message bodies; the empty string stands for every falsy string
SupportMsgs ==
  { <<>>, <<"T","i","l","l">>, <<"j","a","m">>, <<"r","e","s","e","t">>, <<"1">>, <<"0">>, <<"3">>, <<"R","e","s","t","a","r","t">> }

\* the filter applied to faqs_support.json at start-up
WellFormedSupport(f) ==
  /\ Has(f, "questions") \/ Has(f, "keywords")
  /\ Has(f, "answers")
  /\ f.answers # <<>>

faqsSupportV136 == SelectSeq(faqsSupport, WellFormedSupport)

\* faq.questions || faq.keywords || []
questionsOf(faq) ==
  IF Has(faq, "questions") THEN faq.questions
  ELSE IF Has(faq, "keywords") THEN faq.keywords
  ELSE <<>>

\* findSupportMatches of v13.6 and v14.0: the records one of whose questions
\* contains the message or is contained in it
findSupportMatchesV136(message) ==
  LET lower == ToLowerCase(message)
      hit(faq) == \E i \in DOMAIN questionsOf(faq) :
                    \/ Includes(ToLowerCase(questionsOf(faq)[i]), lower)
                    \/ Includes(lower, ToLowerCase(questionsOf(faq)[i]))
  IN SelectSeq(faqsSupportV136, hit)

\* entry.title || entry.questions?.[0] || "Help Article"
articleTitle(entry) ==
  IF Has(entry, "title") /\ entry.title # <<>> THEN entry.title
  ELSE IF Has(entry, "questions") /\ entry.questions # <<>>
            /\ entry.questions[1] # <<>>
    THEN entry.questions[1]
  ELSE <<"H","e","l","p"," ","A","r","t","i","c","l","e">>

\* the reply showing one article
Article(entry) ==
  [status |-> 200, kind |-> "supportAnswer", title |-> articleTitle(entry)]

\* the reply listing several articles by number
ArticleList(matches) ==
  [status |-> 200, kind |-> "supportList",
   options |-> [i \in 1..Len(matches) |-> articleTitle(matches[i])]]

\* an assignment to a property of s = sessions[sessionId] || {}: lost when
\* the store has no such session
Keep(store, sessionId, s) ==
  IF Has(store, sessionId) THEN Put(store, sessionId, s) ELSE store

\* handleSupportAgent of v13.6; ai tells whether the site search of OpenAI
\* returns a result
handleSupportAgentV136(store, message, sessionId, ai) ==
  LET s == IF Has(store, sessionId) THEN store[sessionId] ELSE EmptyObj
      matches == findSupportMatchesV136(message)
      t == Trim(message)
      list == IF Has(s, "lastFaqList") THEN s.lastFaqList ELSE <<>>
      idx == ParseInt(t) - 1
  IN
  IF Flag(s, "awaitingFaqChoice") /\ AllDigits(t) /\ (idx + 1) \in DOMAIN list
    THEN [store |-> Keep(store, sessionId,
                         Put(Put(s, "awaitingFaqChoice", FALSE),
                             "lastFaqList", <<>>)),
          reply |-> Article(list[idx + 1])]
  ELSE IF Len(matches) = 1
    THEN [store |-> store, reply |-> Article(matches[1])]
  ELSE IF Len(matches) > 1
    THEN [store |-> Keep(store, sessionId,
                         Put(Put(s, "awaitingFaqChoice", TRUE),
                             "lastFaqList", matches)),
          reply |-> ArticleList(matches)]
  ELSE IF ai
    THEN [store |-> store, reply |-> Reply(200, "aiResult")]
  ELSE [store |-> store, reply |-> Reply(200, "supportNoMatch")]

\* handleSupportAgent of v14.0
handleSupportAgentV140(store, message, sessionId, ai) ==
  LET ensured == Ensure(store, sessionId)
      s == ensured[sessionId]
      matches == findSupportMatchesV136(message)
      lowerMsg == Trim(ToLowerCase(message))
      list == IF Has(s, "lastFaqList") THEN s.lastFaqList ELSE <<>>
      idx == ParseInt(lowerMsg) - 1
  IN
  IF Flag(s, "awaitingFaqChoice") /\ AllDigits(lowerMsg)
    THEN IF (idx + 1) \in DOMAIN list
           THEN [store |-> Put(ensured, sessionId,
                               Put(Put(s, "awaitingFaqChoice", FALSE),
                                   "lastFaqList", <<>>)),
                 reply |-> Article(list[idx + 1])]
           ELSE [store |-> ensured, reply |-> Reply(200, "validNumber")]
  ELSE IF Len(matches) = 1
    THEN [store |-> ensured, reply |-> Article(matches[1])]
  ELSE IF Len(matches) > 1
    THEN [store |-> Put(ensured, sessionId,
                        Put(Put(s, "awaitingFaqChoice", TRUE),
                            "lastFaqList", matches)),
          reply |-> ArticleList(matches)]
  ELSE IF ai
    THEN [store |-> ensured, reply |-> Reply(200, "aiResult")]
  ELSE [store |-> ensured, reply |-> Reply(200, "supportNoMatch")]

\* /(price|quote|cost|subscription|how much|pricing)/
PriceWordsV136 ==
  { <<"p","r","i","c","e">>, <<"q","u","o","t","e">>, <<"c","o","s","t">>, <<"s","u","b","s","c","r","i","p","t","i","o","n">>, <<"h","o","w"," ","m","u","c","h">>, <<"p","r","i","c","i","n","g">> }

\* handleSalesAgent of v13.6
handleSalesAgentV136(message) ==
  IF IncludesAny(ToLowerCase(message), PriceWordsV136)
    THEN Reply(200, "bookDemo")
    ELSE Reply(200, "businessPrompt")

\* the quick links of handleSalesAgent of v14.0, in order
quickV140 ==
  << [k |-> {<<"b","a","r">>}, l |-> "Bar POS Systems"],
     [k |-> {<<"b","a","k","e","r","y">>}, l |-> "Bakery POS Systems"],
     [k |-> {<<"r","e","s","t","a","u","r","a","n","t">>}, l |-> "Restaurant POS Systems"],
     [k |-> {<<"c","a","f","e">>, <<"c","o","f","f","e","e">>}, l |-> "Cafe POS Systems"],
     [k |-> {<<"h","o","t","e","l">>}, l |-> "Hotel POS Systems"],
     [k |-> {<<"r","e","t","a","i","l">>, <<"s","h","o","p">>}, l |-> "Retail POS Systems"],
     [k |-> {<<"m","e","m","b","e","r">>}, l |-> "Members Club POS Systems"],
     [k |-> {<<"s","c","h","o","o","l">>, <<"e","d","u","c","a","t","i","o","n">>}, l |-> "Education POS Systems"],
     [k |-> {<<"h","o","s","p","i","t","a","l">>}, l |-> "Hospital POS Systems"] >>

\* handleSalesAgent of v14.0
handleSalesAgentV140(message, ai) ==
  LET lower == ToLowerCase(message)
      hits == SelectSeq(Indices(Len(quickV140)),
                        LAMBDA i : IncludesAny(lower, quickV140[i].k))
  IN IF IncludesAny(lower, PriceWordsV136) THEN Reply(200, "bookDemo")
     ELSE IF hits # <<>>
       THEN [status |-> 200, kind |-> "salesQuickLink",
             link |-> quickV140[hits[1]].l]
     ELSE IF ai THEN Reply(200, "aiResult")
     ELSE Reply(200, "businessPrompt")

\* the turn of app.post("/api/chat") of v13.6
RouteV136(sessionId, message, context, reset, ai) ==
  IF reset
    THEN Outcome(Put(sessions, sessionId, DefaultSession),
                 KeyAdd(keyOrder, sessions, sessionId), leads,
                 Reply(200, "resetOk"), "reset")
  ELSE
    LET store == IF Has(sessions, sessionId) THEN sessions
                 ELSE Put(sessions, sessionId,
                          [step |-> "none", lead |-> EmptyObj])
        order == KeyAdd(keyOrder, sessions, sessionId)
        lower == ToLowerCase(message)
    IN
    IF message = <<>>
      THEN Outcome(store, order, leads, Reply(400, "noMessage"), "badRequest")
    ELSE IF lower \in RestartWords
      THEN Outcome(store, order, leads, Reply(200, "restart"), "restart")
    ELSE IF lower \in EndWords
      THEN Outcome(store, order, leads, Reply(200, "bye"), "end")
    ELSE IF context = "sales"
      THEN Outcome(store, order, leads, handleSalesAgentV136(message),
                   "salesAgent")
    ELSE IF context = "support"
      THEN LET r == handleSupportAgentV136(store, message, sessionId, ai) IN
           Outcome(r.store, order, leads, r.reply, "support")
    ELSE Outcome(store, order, leads, Reply(200, "fallback"), "fallback")

\* the turn of app.post("/api/chat") of v14.0, which reads message and
\* context only
RouteV140(sessionId, message, context, ai) ==
  IF context = "sales"
    THEN Outcome(sessions, keyOrder, leads, handleSalesAgentV140(message, ai),
                 "salesAgent")
  ELSE IF context = "support"
    THEN LET r == handleSupportAgentV140(sessions, message, sessionId, ai) IN
         Outcome(r.store, KeyAdd(keyOrder, sessions, sessionId), leads,
                 r.reply, "support")
  ELSE Outcome(sessions, keyOrder, leads, Reply(200, "fallback"), "fallback")

ChatV136(sessionId, message, context, reset, ai) ==
  /\ version = "v13.6"
  /\ now < MaxClock
  /\ \E r \in {RouteV136(sessionId, message, context, reset, ai)} :
       /\ sessions' = r.sessions
       /\ keyOrder' = r.keyOrder
       /\ leads' = r.leads
       /\ reply' = r.reply
       /\ turn' = Request(sessionId, message, context, reset, r.path)
  /\ now' = now + 1
  /\ UNCHANGED <<version, faqSales, sessionStore, earlier>>

ChatV140(sessionId, message, context, ai) ==
  /\ version = "v14.0"
  /\ now < MaxClock
  /\ \E r \in {RouteV140(sessionId, message, context, ai)} :
       /\ sessions' = r.sessions
       /\ keyOrder' = r.keyOrder
       /\ leads' = r.leads
       /\ reply' = r.reply
       /\ turn' = Request(sessionId, message, context, FALSE, r.path)
  /\ now' = now + 1
  /\ UNCHANGED <<version, faqSales, sessionStore, earlier>>

InitSupport ==
  /\ version \in SupportVersions
  /\ sessions = EmptyObj
  /\ keyOrder = <<>>
  /\ leads = <<>>
  /\ now = 0
  /\ faqSales = <<>>
  /\ reply = NoResponse
  /\ turn = Request("", <<>>, "absent", FALSE, "init")
  /\ sessionStore = EmptyObj
  /\ earlier = EmptyObj

\* the requests a run draws from
SupportRequests ==
  {<<id, message, "support", FALSE>> :
     id \in SupportSessionIds, message \in SupportMsgs}
  \cup {<<id, <<"T","i","l","l">>, context, FALSE>> :
     id \in SupportSessionIds, context \in {"general", "absent"}}
  \cup {<<id, <<"T","i","l","l">>, "sales", reset>> :
     id \in SupportSessionIds, reset \in BOOLEAN}

NextSupport ==
  \/ \E q \in SupportRequests : ChatV132(q[1], q[2], q[3], q[4])
  \/ \E q \in SupportRequests, ai \in BOOLEAN :
       ChatV136(q[1], q[2], q[3], q[4], ai)
  \/ \E q \in SupportRequests, ai \in BOOLEAN :
       ChatV140(q[1], q[2], q[3], ai)

SpecSupport == InitSupport /\ [][NextSupport]_vars

(***************************************************************************)
(* v9.25 (src/unnamed/part_000): sessions in memory, saved to              *)
(* sessions.json after each change, expired after 12 hours.  The clock     *)
(* `now` counts hours; Date.now() is never 0.                              *)
(***************************************************************************)
\* hours the clock may reach
MaxHours == 40

\* const cutoff = 12 * 60 * 60 * 1000, in hours
CutoffHours == 12

\* JavaScript null
Null == "null"

\* /\bw/ matches somewhere in text
HasWordStart(text, w) ==
  \E i \in 1..Len(text) : OccursAt(text, w, i) /\ WordBoundary(text, i - 1)

\* /w\b/ matches somewhere in text
HasWordEnd(text, w) ==
  \E i \in 1..Len(text) :
    OccursAt(text, w, i) /\ WordBoundary(text, i + Len(w) - 1)

\* /\bw\b/ matches somewhere in text
HasWord(text, w) == \E i \in 1..Len(text) : WordAt(text, w, i)

\* the alternatives of the five patterns of isSalesIntent, each between \b
SalesIntentWords ==
  { <<"p","r","i","c","e">>, <<"c","o","s","t">>, <<"q","u","o","t","e">>, <<"q","u","o","t","a","t","i","o","n">>, <<"p","r","i","c","i","n","g">>, <<"r","a","t","e">>, <<"f","e","e">>,
    <<"f","e","e","s">>, <<"c","h","a","r","g","e">>, <<"c","h","a","r","g","e","s">>,
    <<"h","o","w"," ","m","u","c","h">>, <<"w","h","a","t","s"," ","t","h","e"," ","p","r","i","c","e">>, <<"w","h","a","t","'","s"," ","t","h","e"," ","p","r","i","c","e">>,
    <<"w","h","a","t"," ","i","s"," ","t","h","e"," ","p","r","i","c","e">>, <<"h","o","w"," ","m","a","n","y">>,
    <<"b","u","y">>, <<"p","u","r","c","h","a","s","e">>, <<"o","r","d","e","r">>, <<"g","e","t"," ","s","t","a","r","t","e","d">>, <<"s","i","g","n"," ","u","p">>,
    <<"s","e","t","u","p"," ","c","o","s","t">>, <<"i","n","s","t","a","l","l"," ","c","o","s","t">>,
    <<"d","e","m","o">>, <<"t","r","i","a","l">>, <<"p","r","e","s","e","n","t","a","t","i","o","n">>, <<"w","a","l","k","t","h","r","o","u","g","h">>, <<"q","u","o","t","e"," ","r","e","q","u","e","s","t">>,
    <<"p","l","a","n">>, <<"p","l","a","n","s">>, <<"p","a","c","k","a","g","e">>, <<"b","u","n","d","l","e">>, <<"s","u","b","s","c","r","i","p","t","i","o","n">>, <<"m","o","n","t","h","l","y">>,
    <<"y","e","a","r","l","y">> }

isSalesIntent(message) ==
  /\ message # <<>>
  /\ \E w \in SalesIntentWords : HasWord(ToLowerCase(message), w)

\* the words of the first pattern of detectTopic
PaymentWords ==
  { <<"c","a","r","d">>, <<"t","a","p","a","p","a","y">>, <<"p","a","y","m","e","n","t">>, <<"t","e","r","m","i","n","a","l">>, <<"e","p","o","s">>, <<"p","e","d">>,
    <<"m","e","r","c","h","a","n","t">>, <<"r","e","a","d","e","r">>, <<"s","t","r","i","p","e">>, <<"w","o","r","l","d","p","a","y">>, <<"t","r","u","s","t","p","a","y","m","e","n","t","s">>,
    <<"d","o","j","o">>, <<"g","l","o","b","a","l","p","a","y","m","e","n","t","s">> }

\* detectTopic; in /\bvoucher|giveavoucher|gift\b/ the first alternative
\* carries the leading \b and the last one the trailing \b
detectTopic(text) ==
  LET t == ToLowerCase(text) IN
  IF \E w \in PaymentWords : HasWord(t, w) THEN "payments"
  ELSE IF \/ HasWordStart(t, <<"v","o","u","c","h","e","r">>)
          \/ Includes(t, <<"g","i","v","e","a","v","o","u","c","h","e","r">>)
          \/ HasWordEnd(t, <<"g","i","f","t">>)
    THEN "vouchers"
  ELSE IF \/ HasWordStart(t, <<"i","w","a","n","t","f","e","d">>)
          \/ Includes(t, <<"o","r","d","e","r"," ","o","n","l","i","n","e">>)
          \/ Includes(t, <<"o","n","l","i","n","e"," ","o","r","d","e","r","i","n","g">>)
          \/ HasWordEnd(t, <<"m","e","n","u">>)
    THEN "onlineordering"
  ELSE IF \/ HasWordStart(t, <<"b","o","o","k","i","n","g">>)
          \/ \E w \in {<<"r","e","s","d","i","a","r","y">>, <<"t","a","b","l","e">>, <<"r","e","s","e","r","v","a","t","i","o","n">>, <<"g","u","e","s","t","l","i","n","e">>,
                       <<"m","e","w","s">>} : Includes(t, w)
          \/ HasWordEnd(t, <<"p","r","o","t","e","l">>)
    THEN "reservations"
  ELSE Null

\* the three FAQ files as loadFAQ returns them (no validation)
faqs ==
  [support |->
     << [questions |-> << <<"p","r","i","n","t","e","r"," ","o","f","f","l","i","n","e">> >>,
         answers |-> << <<"r","e","s","t","a","r","t"," ","i","t">> >>,
         category |-> <<"S","u","p","p","o","r","t">>],
        [questions |-> << <<"t","i","l","l"," ","f","r","o","z","e","n">> >>] >>,
   sales |->
     << [questions |-> << <<"c","a","r","d"," ","t","e","r","m","i","n","a","l"," ","h","a","r","d","w","a","r","e">> >>,
         answers |-> << <<"w","e"," ","l","e","a","s","e"," ","t","e","r","m","i","n","a","l","s">> >>,
         category |-> <<"S","a","l","e","s"," ","I","n","f","o">>] >>,
   general |->
     << [questions |-> << <<"o","p","e","n","i","n","g"," ","h","o","u","r","s">> >>,
         answers |-> << <<"n","i","n","e"," ","t","o"," ","f","i","v","e">> >>] >> ]

\* the stop words of findFaqMatch (the two spelled with U+2019, a character
\* no message of the model contains, are left out)
stopWords ==
  { <<"t","h","e">>, <<"i","s">>, <<"a">>, <<"a","n">>, <<"a","n","d">>, <<"o","f">>, <<"f","o","r">>, <<"o","n">>, <<"a","t">>, <<"t","o">>,
    <<"i","n">>, <<"i","t">>, <<"n","o">>, <<"n","o","t">>, <<"p","l","e","a","s","e">>, <<"h","e","l","p">>, <<"m","y">>, <<"o","u","r">>, <<"w","e">>,
    <<"i","s","s","u","e">>, <<"p","r","o","b","l","e","m">>, <<"s","h","o","w","i","n","g">>, <<"s","t","o","p","p","e","d">>, <<"w","o","r","k","i","n","g">>, <<"d","o","e","s","n","t">>,
    <<"w","o","n","t">>, <<"t","u","r","n">>, <<"o","f","f">>, <<"u","p">>, <<"d","o","w","n">>, <<"a","n","y">>, <<"c","a","n">>, <<"y","o","u">>, <<"i">>,
    <<"m","e">> }

\* x.split(/\s+/).filter((w) => w && !stopWords.has(w))
keyWords(x) ==
  SelectSeq(SplitWs(x), LAMBDA w : w # <<>> /\ w \notin stopWords)

\* the topic vocabulary of findFaqMatch
topics ==
  [payments |-> { <<"p","a","y","m","e","n","t">>, <<"c","a","r","d">>, <<"t","e","r","m","i","n","a","l">>, <<"t","a","p","a","p","a","y">>, <<"s","t","r","i","p","e">>,
                  <<"w","o","r","l","d","p","a","y">>, <<"t","r","u","s","t","p","a","y","m","e","n","t","s">>, <<"d","o","j","o">>, <<"g","l","o","b","a","l","p","a","y","m","e","n","t","s">>,
                  <<"i","n","t","e","g","r","a","t","e","d">> },
   vouchers |-> { <<"v","o","u","c","h","e","r">>, <<"g","i","v","e","a","v","o","u","c","h","e","r">>, <<"g","i","f","t">> },
   onlineordering |-> { <<"o","r","d","e","r">>, <<"i","w","a","n","t","f","e","d">>, <<"d","e","l","i","v","e","r","y">>, <<"p","i","c","k","u","p">>,
                        <<"m","e","n","u">>, <<"o","n","l","i","n","e">> },
   reservations |-> { <<"b","o","o","k","i","n","g">>, <<"r","e","s","d","i","a","r","y">>, <<"t","a","b","l","e">>, <<"g","u","e","s","t","l","i","n","e">>,
                      <<"m","e","w","s">>, <<"p","r","o","t","e","l">> }]

\* scores are kept in 1200ths: exact for word counts up to 6
ScoreUnit == 1200

\* the score of a question with words qWords for the words of the message,
\* 0 when the question is skipped
scoreOf(msgWords, qWords, topic) ==
  LET shared == SelectSeq(msgWords, LAMBDA w : w \in Range(qWords))
      topicHits == SelectSeq(qWords,
                     LAMBDA w : topic \in DOMAIN topics /\ w \in topics[topic])
      topicBoost == IF Len(topicHits) >= 2 THEN ScoreUnit \div 4 ELSE 0
      larger == IF Len(msgWords) > Len(qWords) THEN Len(msgWords)
                ELSE Len(qWords)
  IN IF shared = <<>> THEN 0
     ELSE IF Len(shared) = 1 /\ Len(msgWords) > 2 THEN 0
     ELSE (Len(shared) * ScoreUnit) \div larger + topicBoost

\* the score findFaqMatch gives question q
questionScore(msgWords, q, topic) ==
  scoreOf(msgWords, keyWords(ToLowerCase(q)), topic)

\* the search order of findFaqMatch for a context
searchOrder(context) ==
  IF context = "support" THEN <<faqs.support, faqs.sales, faqs.general>>
  ELSE <<faqs.sales, faqs.support, faqs.general>>

\* if (score > highest) { highest = score; best = faq; }
better(acc, faq, sc) ==
  IF sc > acc.highest THEN [acc EXCEPT !.highest = sc, !.best = <<faq>>]
  ELSE acc

\* one set of FAQs scanned from record i, question j on: the best record
\* and the highest score so far; threw when a record has no questions
RECURSIVE scanSet(_, _, _, _, _, _)
scanSet(set, i, j, msgWords, topic, acc) ==
  IF acc.threw \/ i > Len(set) THEN acc
  ELSE IF ~Has(set[i], "questions") THEN [acc EXCEPT !.threw = TRUE]
  ELSE IF j > Len(set[i].questions)
    THEN scanSet(set, i + 1, 1, msgWords, topic, acc)
  ELSE scanSet(set, i, j + 1, msgWords, topic,
               better(acc, set[i],
                      questionScore(msgWords, set[i].questions[j], topic)))

\* the sets scanned in order; the loop ends after a set that reached 0.65,
\* tested here before the next set (highest starts at 0)
RECURSIVE scanSets(_, _, _, _)
scanSets(sets, msgWords, topic, acc) ==
  IF sets = <<>> \/ acc.threw \/ acc.highest * 100 >= 65 * ScoreUnit THEN acc
  ELSE scanSets(Tail(sets), msgWords, topic,
                scanSet(Head(sets), 1, 1, msgWords, topic, acc))

\* the characters of a context name
contextText(context) ==
  CASE context = "sales" -> <<"s","a","l","e","s">>
    [] context = "support" -> <<"s","u","p","p","o","r","t">>
    [] OTHER -> <<"g","e","n","e","r","a","l">>

\* what findFaqMatch returns for the scan result r: kind "null", "threw" (a
\* record without questions, or the best record without answers) or "faq"
\* with category and result
matchOf(r, context) ==
  IF r.threw THEN [kind |-> "threw"]
  ELSE IF r.highest * 100 >= 45 * ScoreUnit /\ r.best # <<>>
    THEN IF ~Has(r.best[1], "answers") THEN [kind |-> "threw"]
         ELSE [kind |-> "faq",
               category |-> IF Has(r.best[1], "category")
                                 /\ r.best[1].category # <<>>
                              THEN r.best[1].category
                              ELSE contextText(context),
               result |-> r.best[1].answers[1]]
  ELSE [kind |-> "null"]

findFaqMatch(message, context, topic) ==
  IF Trim(ToLowerCase(message)) = <<>> THEN [kind |-> "null"]
  ELSE matchOf(scanSets(searchOrder(context),
                        keyWords(Trim(ToLowerCase(message))), topic,
                        [best |-> <<>>, highest |-> 0, threw |-> FALSE]),
               context)

\* sessions.json: absent, unreadable, or the JSON text of a store
FileMissing == [kind |-> "missing"]
FileCorrupt == [kind |-> "corrupt"]
FileOf(store) == [kind |-> "json", data |-> store]

\* loadSessions of v9.25: {} when the file is absent or does not parse
loadSessionsV925(file) == IF file.kind = "json" THEN file.data ELSE EmptyObj

\* the file kept as it is: a saveSessions that writes nothing
saveSessionsSkipped(mem, file) == file

\* saveSessions of v9.25: the file becomes the text of the store in memory
saveSessionsV925(mem, file) == FileOf(mem)

\* memory and file after saveSessions()
Saved(mem, file) == [mem |-> mem, file |-> saveSessionsV925(mem, file)]

\* the sweep with >= in place of >
expiredAtCutoff(s, t) ==
  ~Has(s, "timestamp") \/ s.timestamp = 0 \/ t - s.timestamp >= CutoffHours

\* the test of cleanupSessions: !s.timestamp || now - s.timestamp > cutoff
expired(s, t) ==
  ~Has(s, "timestamp") \/ s.timestamp = 0 \/ t - s.timestamp > CutoffHours

\* cleanupSessions at time t: expired sessions are deleted, and the store
\* is saved when at least one was
cleanupSessionsV925(mem, file, t) ==
  LET kept == {ip \in DOMAIN mem : ~expired(mem[ip], t)}
      swept == [ip \in kept |-> mem[ip]]
  IN IF kept # DOMAIN mem THEN Saved(swept, file)
     ELSE [mem |-> mem, file |-> file]

\* the session getSession creates
newSessionV925(t) ==
  [step |-> "none", context |-> "general", topic |-> Null,
   awaitingQuoteDecision |-> FALSE, pendingTypo |-> Null,
   salesLead |-> EmptyObj, lastMessage |-> <<>>, timestamp |-> t]

\* getSession(ip) at time t: creates and saves a missing session, then
\* refreshes the timestamp and saves again
getSessionV925(mem, file, ip, t) ==
  LET made == IF ~Has(mem, ip) THEN Saved(Put(mem, ip, newSessionV925(t)), file)
              ELSE [mem |-> mem, file |-> file]
  IN Saved(Put(made.mem, ip, Put(made.mem[ip], "timestamp", t)), made.file)

\* a reset that deletes the session when it exists and creates it otherwise
resetSessionToggle(mem, file, ip) ==
  IF Has(mem, ip) THEN Saved([i \in DOMAIN mem \ {ip} |-> mem[i]], file)
  ELSE Saved(Put(mem, ip, newSessionV925(0)), file)

\* resetSession(ip): delete sessions[ip]; saveSessions()
resetSessionV925(mem, file, ip) ==
  Saved([i \in DOMAIN mem \ {ip} |-> mem[i]], file)

\* /^(hi|hello|hey|good\s(morning|afternoon|evening))\b/
GreetingWords ==
  { <<"h","i">>, <<"h","e","l","l","o">>, <<"h","e","y">> } \cup
  { <<"g","o","o","d">> \o <<ws>> \o w :
      ws \in Whitespace, w \in {<<"m","o","r","n","i","n","g">>, <<"a","f","t","e","r","n","o","o","n">>, <<"e","v","e","n","i","n","g">>} }

isGreeting(lower) ==
  \E w \in GreetingWords : OccursAt(lower, w, 1) /\ WordBoundary(lower, Len(w))

\* /\bgiveavoucher|vouchers?|gift voucher\b/
isVoucherShortcut(lower) ==
  \/ HasWordStart(lower, <<"g","i","v","e","a","v","o","u","c","h","e","r">>)
  \/ Includes(lower, <<"v","o","u","c","h","e","r">>)
  \/ HasWordEnd(lower, <<"g","i","f","t"," ","v","o","u","c","h","e","r">>)

\* /\biwantfed|online ordering|order online\b/
isIWantFedShortcut(lower) ==
  \/ HasWordStart(lower, <<"i","w","a","n","t","f","e","d">>)
  \/ Includes(lower, <<"o","n","l","i","n","e"," ","o","r","d","e","r","i","n","g">>)
  \/ HasWordEnd(lower, <<"o","r","d","e","r"," ","o","n","l","i","n","e">>)

\* /(price|cost|quote|demo|install|package|monthly|hardware|buy|setup|rate)/i
SalesResultWords ==
  { <<"p","r","i","c","e">>, <<"c","o","s","t">>, <<"q","u","o","t","e">>, <<"d","e","m","o">>, <<"i","n","s","t","a","l","l">>, <<"p","a","c","k","a","g","e">>, <<"m","o","n","t","h","l","y">>,
    <<"h","a","r","d","w","a","r","e">>, <<"b","u","y">>, <<"s","e","t","u","p">>, <<"r","a","t","e">> }

\* the messages of the model; <<>> stands for a missing or non-string one
SessionMsgs ==
  { <<>>, <<"h","i">>, <<"y","e","s">>, <<"v","o","u","c","h","e","r","s">>, <<"p","r","i","c","e">>, <<"p","r","i","n","t","e","r"," ","o","f","f","l","i","n","e">>,
    <<"t","i","l","l"," ","f","r","o","z","e","n">>, <<"o","p","e","n","i","n","g"," ","h","o","u","r","s">>, <<"z","z","z">> }

\* the contexts a request may name, "absent" taking the default "general"
SessionContexts == {"general", "support", "sales"}

\* the tests of the route on a message, evaluated once for each message
messageTests ==
  [message \in SessionMsgs |->
     LET lower == Trim(ToLowerCase(message)) IN
     [yes |-> lower = <<"y","e","s">>,
      detectedTopic |-> detectTopic(lower),
      greeting |-> isGreeting(lower),
      voucher |-> isVoucherShortcut(lower),
      iWantFed |-> isIWantFedShortcut(lower),
      salesIntent |-> isSalesIntent(message)]] @@ EmptyObj

\* findFaqMatch, evaluated once for each message, context and topic
faqMatches ==
  [q \in SessionMsgs \X SessionContexts \X (DOMAIN topics \cup {Null}) |->
     findFaqMatch(q[1], q[2], q[3])] @@ EmptyObj

\* what a turn of v9.25 leaves: memory, file, reply and the branch taken
TurnV925(mem, file, rep, path) ==
  [mem |-> mem, file |-> file, reply |-> rep, path |-> path]

\* the session of ip changed to s and saved
Stored(mem, file, ip, s) == Saved(Put(mem, ip, s), file)

\* the try block of the route, entered with the session s of ip saved
tryV925(mem, file, ip, s, message, context, completionOk) ==
  LET tests == messageTests[message]
      set(changed, rep, path) ==
        LET st == Stored(mem, file, ip, changed)
        IN TurnV925(st.mem, st.file, rep, path)
      faq == faqMatches[<<message, context, s.topic>>]
  IN
  IF tests.yes /\ s.context = "support"
       /\ s.lastMessage = <<"G","i","v","e","a","V","o","u","c","h","e","r","I","n","t","r","o">>
    THEN set(Put(s, "lastMessage", <<"G","i","v","e","a","V","o","u","c","h","e","r","F","o","l","l","o","w","u","p">>),
             Reply(200, "voucherFollowup"), "voucherFollowup")
  ELSE IF tests.yes /\ s.context = "support"
            /\ s.lastMessage = <<"i","W","a","n","t","F","e","d","I","n","t","r","o">>
    THEN set(Put(s, "lastMessage", <<"i","W","a","n","t","F","e","d","F","o","l","l","o","w","u","p">>),
             Reply(200, "iWantFedFollowup"), "iWantFedFollowup")
  ELSE IF tests.greeting
    THEN TurnV925(mem, file, Reply(200, "greeting"), "greeting")
  ELSE IF tests.voucher
    THEN set([s EXCEPT !.context = "support",
                       !.lastMessage = <<"G","i","v","e","a","V","o","u","c","h","e","r","I","n","t","r","o">>,
                       !.topic = "vouchers"],
             Reply(200, "voucherIntro"), "voucher")
  ELSE IF tests.iWantFed
    THEN set([s EXCEPT !.context = "support",
                       !.lastMessage = <<"i","W","a","n","t","F","e","d","I","n","t","r","o">>,
                       !.topic = "onlineordering"],
             Reply(200, "iWantFedIntro"), "iWantFed")
  ELSE IF tests.salesIntent
    THEN set([s EXCEPT !.awaitingQuoteDecision = TRUE, !.context = "sales",
                       !.step = "none"],
             Reply(200, "quoteOffer"), "salesIntent")
  ELSE IF faq.kind = "threw"
    THEN TurnV925(mem, file, Reply(500, "unavailable"), "faqThrow")
  ELSE IF faq.kind = "faq"
    THEN IF \/ Includes(ToLowerCase(faq.category), <<"s","a","l","e","s">>)
            \/ tests.salesIntent
            \/ \E w \in SalesResultWords : Includes(ToLowerCase(faq.result), w)
           THEN set([s EXCEPT !.awaitingQuoteDecision = TRUE,
                              !.step = "none", !.context = "sales"],
                    Reply(200, "salesFaq"), "salesFaq")
           ELSE set([s EXCEPT !.step = "followup", !.context = "support"],
                    Reply(200, "supportFaq"), "supportFaq")
  ELSE IF completionOk
    THEN TurnV925(mem, file, Reply(200, "openai"), "openai")
  ELSE TurnV925(mem, file, Reply(500, "unavailable"), "openaiThrow")

\* POST /api/chat of v9.25 at time t
RouteV925(mem0, file0, ip, message, context, reset, completionOk, t) ==
  LET swept == cleanupSessionsV925(mem0, file0, t)
      cleared == resetSessionV925(swept.mem, swept.file, ip)
      got == getSessionV925(swept.mem, swept.file, ip, t)
      detectedTopic == messageTests[message].detectedTopic
      s1 == Put(Put(got.mem[ip], "timestamp", t), "lastMessage", message)
      s2 == IF detectedTopic # Null THEN Put(s1, "topic", detectedTopic) ELSE s1
      st == Stored(got.mem, got.file, ip, s2)
  IN IF reset
       THEN TurnV925(cleared.mem, cleared.file, Reply(200, "welcome"), "reset")
     ELSE IF message = <<>>
       THEN TurnV925(swept.mem, swept.file, Reply(400, "noMessage"),
                     "badRequest")
     ELSE tryV925(st.mem, st.file, ip, s2, message,
                  IF context = "absent" THEN "general" ELSE context,
                  completionOk)

\* the hour the process starts
StartHour == 14

\* the addresses that send requests
SessionIPs == {"ip2"}

\* a store left in sessions.json by an earlier run: ip2 was last seen 12
\* hours before the start, ip3 one hour before, ip4 13 hours before, and
\* s1 was written by a release whose sessions carry no timestamp
PreviousRun ==
  [ip \in {"ip2", "ip3", "ip4", "s1"} |->
     CASE ip = "ip2" -> [newSessionV925(StartHour - CutoffHours)
                           EXCEPT !.context = "support",
                                  !.lastMessage = <<"v","o","u","c","h","e","r","s">>,
                                  !.topic = "vouchers"]
       [] ip = "ip3" -> newSessionV925(StartHour - 1)
       [] ip = "ip4" -> newSessionV925(StartHour - CutoffHours - 1)
       [] OTHER -> [currentId |-> "1"]]

InitialFiles == {FileMissing, FileCorrupt, FileOf(PreviousRun)}

\* hours between two requests
Elapsed == {0, CutoffHours, CutoffHours + 1}

\* the module is loaded: let sessions = loadSessions()
InitSession ==
  /\ version = "v9.25"
  /\ sessionStore \in InitialFiles
  /\ sessions = loadSessionsV925(sessionStore)
  /\ keyOrder = <<>>
  /\ leads = <<>>
  /\ now = StartHour
  /\ faqSales = <<>>
  /\ reply = NoResponse
  /\ turn = Request("", <<>>, "absent", FALSE, "load")
  /\ earlier = EmptyObj

\* the first sweep, at start-up
StartV925 ==
  /\ version = "v9.25"
  /\ turn.path = "load"
  /\ LET swept == cleanupSessionsV925(sessions, sessionStore, now) IN
       /\ sessions' = swept.mem
       /\ sessionStore' = swept.file
  /\ turn' = Request("", <<>>, "absent", FALSE, "init")
  /\ UNCHANGED <<version, keyOrder, leads, now, faqSales, reply, earlier>>

\* one request, d hours after the previous one
ChatV925(ip, message, context, reset, completionOk, d) ==
  /\ version = "v9.25"
  /\ turn.path # "load"
  /\ now + d <= MaxHours
  /\ now' = now + d
  /\ LET r == RouteV925(sessions, sessionStore, ip, message, context, reset,
                        completionOk, now')
     IN /\ sessions' = r.mem
        /\ sessionStore' = r.file
        /\ reply' = r.reply
        /\ turn' = Request(ip, message, context, reset, r.path)
  /\ UNCHANGED <<version, keyOrder, leads, faqSales, earlier>>

\* message, context, reset flag and whether the completion succeeds: every
\* message without context, the FAQ questions under each context, a reset,
\* and a completion that fails
SessionRequests ==
  {<<m, "absent", FALSE, TRUE>> : m \in SessionMsgs} \cup
  {<<m, c, FALSE, TRUE>> :
     m \in {<<"o","p","e","n","i","n","g"," ","h","o","u","r","s">>, <<"p","r","i","n","t","e","r"," ","o","f","f","l","i","n","e">>}, c \in {"support", "sales"}}
  \cup {<<<<"h","i">>, "absent", TRUE, TRUE>>, <<<<"z","z","z">>, "absent", FALSE, FALSE>>}

NextSession ==
  \/ StartV925
  \/ \E ip \in SessionIPs, q \in SessionRequests, d \in Elapsed :
       ChatV925(ip, q[1], q[2], q[3], q[4], d)

SpecSession == InitSession /\ [][NextSession]_vars

(***************************************************************************)
(* updateSession of v15.2 as an operation of its own (SpecStore): the      *)
(* file starts empty and each step merges an object into one session;      *)
(* earlier records the call.                                               *)
(***************************************************************************)
StoreIds == {"s1", "s2"}

\* the objects merged: the field the handler writes, with two values, a
\* second field, both, and the empty object
StoreData ==
  { [k \in {"currentId"} |-> Str(<<"1">>)],
    [k \in {"currentId"} |-> Str(<<"2">>)],
    [k \in {"page"} |-> Str(<<"a">>)],
    [k \in {"page"} |-> Str(<<"b">>)],
    [k \in {"currentId", "page"} |-> Str(<<"3">>)],
    EmptyObj }

InitStore ==
  /\ version = "v15.2"
  /\ sessions = EmptyObj
  /\ keyOrder = <<>>
  /\ leads = <<>>
  /\ now = 0
  /\ faqSales = <<>>
  /\ reply = NoResponse
  /\ turn = Request("", <<>>, "absent", FALSE, "init")
  /\ sessionStore = EmptyObj
  /\ earlier = EmptyObj

\* updateSession(id, data)
UpdateSessionV152(id, data) ==
  /\ version = "v15.2"
  /\ sessions' = updateSession(sessions, id, data)
  /\ earlier' = [op |-> "updateSession", id |-> id, data |-> data]
  /\ UNCHANGED <<version, keyOrder, leads, now, faqSales, reply, turn,
                 sessionStore>>

NextStore ==
  \E id \in StoreIds, data \in StoreData : UpdateSessionV152(id, data)

SpecStore == InitStore /\ [][NextStore]_vars

(***************************************************************************)
(* The lead-capture releases restarted with a lead log left by an earlier  *)
(* run (SpecLeadLog): sales_leads.jsonl outlives the process, the sessions *)
(* do not.                                                                 *)
(***************************************************************************)
\* a line logJSON wrote in an earlier run
EarlierLead ==
  [time |-> 0, name |-> <<"A","l">>, company |-> <<"C","o">>, email |-> <<"a","@","b",".","c">>,
   comments |-> <<"c","a","l","l"," ","m","e">>]

InitLeadLog ==
  /\ version \in {"v13.0", "v13.2"}
  /\ sessions = EmptyObj
  /\ keyOrder = <<>>
  /\ leads = <<EarlierLead>>
  /\ now = 0
  /\ faqSales = <<>>
  /\ reply = NoResponse
  /\ turn = Request("", <<>>, "absent", FALSE, "init")
  /\ sessionStore = EmptyObj
  /\ earlier = EmptyObj

SpecLeadLog == InitLeadLog /\ [][NextLead]_vars

(***************************************************************************)
(* v15.1c with two sessions and a remembered turn (SpecReplay): earlier    *)
(* holds the session state, message, reply and next session state of one   *)
(* turn handled before, to compare later turns with.                       *)
(***************************************************************************)
ReplayIds == {"s1", "s2"}

ReplayMsgs ==
  { <<"T","i","l","l">>, <<"Y","e","s"," ","p","l","e","a","s","e">>,
    <<"m","a","y","b","e">>, <<"h","a","r","d","w","a","r","e">> }

\* sessions[sessionId] as the handler sees it: {} when there is none
stateOf(store, sessionId) ==
  IF Has(store, sessionId) THEN store[sessionId] ELSE EmptyObj

InitReplay ==
  /\ version = "v15.1c"
  /\ faqSales = LoadV151c(RawCorpusA)
  /\ sessions = EmptyObj
  /\ keyOrder = <<>>
  /\ leads = <<>>
  /\ now = 0
  /\ reply = NoResponse
  /\ turn = Request("", <<>>, "absent", FALSE, "init")
  /\ sessionStore = EmptyObj
  /\ earlier = EmptyObj

\* one request of v15.1c; the turn is remembered when remember is true
ReplayV151c(sessionId, message, remember) ==
  /\ version = "v15.1c"
  /\ LET r == handleSalesFAQV151c(sessions, keyOrder, faqSales, message,
                                  sessionId)
     IN /\ sessions' = r.sessions
        /\ keyOrder' = r.keyOrder
        /\ reply' = r.reply
        /\ turn' = Request(sessionId, message, "absent", FALSE, r.path)
        /\ earlier' =
             IF remember
               THEN [state |-> stateOf(sessions, sessionId),
                     message |-> message,
                     reply |-> r.reply,
                     next |-> stateOf(r.sessions, sessionId)]
               ELSE earlier
  /\ UNCHANGED <<version, faqSales, leads, now, sessionStore>>

NextReplay ==
  \E sessionId \in ReplayIds, message \in ReplayMsgs, remember \in BOOLEAN :
    ReplayV151c(sessionId, message, remember)

SpecReplay == InitReplay /\ [][NextReplay]_vars

(***************************************************************************)
(* Two requests of one session in flight in v15.2 (SpecConcurrent).        *)
(* handleSalesFAQ is declared async but holds no await, and getSession and *)
(* updateSession use readFileSync and writeFileSync: from the call of the  *)
(* handler to its return nothing else runs.  The one await of the route    *)
(* (src/server.js, line 632) comes after the handler has returned, so the  *)
(* response of a request is a step of its own.  earlier holds the requests *)
(* in flight: their position, their message, the file as it was when they  *)
(* arrived, the reply awaited, and the order in which they were handled.   *)
(***************************************************************************)
ConcurrentReqs == {1, 2}

ConcurrentMsgs == {<<"Y","e","s"," ","p","l","e","a","s","e">>, <<"N","o","t"," ","y","e","s">>, <<"T","i","l","l">>, <<"t","i","l","l"," ","p","r","i","n","t","e","r">>, <<"m","a","y","b","e">>}

\* cache/sessions.json before the two requests: no file, or the session
\* left on a record by an earlier turn
ConcurrentFiles ==
  {EmptyObj} \cup
  {[id \in {"s1"} |-> [k \in {"currentId"} |-> Str(c)]] : c \in {<<"1">>, <<"3">>}}

\* the file a handler works on, were it read when the request arrived
readAtArrival(atArrival, atRun) == atArrival

\* the file a handler works on: loadSessions() inside getSession and
\* updateSession reads it in the run of the handler
readAtRun(atArrival, atRun) == atRun

\* the calls of updateSession on the path a turn of v15.2 took
writesOf(path) ==
  IF path \in {"branch", "exact", "confident", "single"} THEN 1 ELSE 0

InitConcurrent ==
  /\ version = "v15.2"
  /\ faqSales = LoadV152(RawCorpusA)
  /\ sessions \in ConcurrentFiles
  /\ keyOrder = <<>>
  /\ leads = <<>>
  /\ now = 0
  /\ reply = NoResponse
  /\ turn = Request("", <<>>, "absent", FALSE, "init")
  /\ sessionStore = EmptyObj
  /\ earlier = [start |-> sessions,
                pc |-> [r \in ConcurrentReqs |-> "idle"],
                message |-> [r \in ConcurrentReqs |-> <<>>],
                seen |-> [r \in ConcurrentReqs |-> EmptyObj],
                out |-> [r \in ConcurrentReqs |-> NoResponse],
                path |-> [r \in ConcurrentReqs |-> "init"],
                handled |-> <<>>]

\* the request reaches the server and waits for its callback to run
ArriveV152(r, message) ==
  /\ earlier.pc[r] = "idle"
  /\ earlier' = [earlier EXCEPT !.pc[r] = "arrived",
                                !.message[r] = message,
                                !.seen[r] = sessions]
  /\ UNCHANGED <<version, sessions, keyOrder, leads, now, faqSales, reply,
                 turn, sessionStore>>

\* the callback of app.post runs up to its await: handleSalesFAQ from its
\* first line to its return
HandleV152(r) ==
  /\ earlier.pc[r] = "arrived"
  /\ \E o \in {handleSalesFAQV152(readAtRun(earlier.seen[r], sessions),
                                  keyOrder, faqSales, earlier.message[r],
                                  "s1")} :
       /\ sessions' = o.sessions
       /\ keyOrder' = o.keyOrder
       /\ earlier' = [earlier EXCEPT !.pc[r] = "handled",
                                     !.out[r] = o.reply,
                                     !.path[r] = o.path,
                                     !.handled = Append(@, r)]
  /\ UNCHANGED <<version, leads, now, faqSales, reply, turn, sessionStore>>

\* the await is over: res.json({ reply }), or res.status(500)
RespondV152(r) ==
  /\ earlier.pc[r] = "handled"
  /\ reply' = earlier.out[r]
  /\ turn' = Request("s1", earlier.message[r], "absent", FALSE,
                     earlier.path[r])
  /\ earlier' = [earlier EXCEPT !.pc[r] = "done"]
  /\ UNCHANGED <<version, sessions, keyOrder, leads, now, faqSales,
                 sessionStore>>

NextConcurrent ==
  \/ \E r \in ConcurrentReqs, message \in ConcurrentMsgs :
       ArriveV152(r, message)
  \/ \E r \in ConcurrentReqs : HandleV152(r)
  \/ \E r \in ConcurrentReqs : RespondV152(r)

SpecConcurrent == InitConcurrent /\ [][NextConcurrent]_vars

(***************************************************************************)
(* The pricing prompt of v13.2 counted (SpecPrompt): one client in context *)
(* sales; earlier.offers is the number of times the confirmation prompt    *)
(* of Step 1 (src/server.js, lines 171-177) was sent to it since its last  *)
(* reset.                                                                  *)
(***************************************************************************)
PromptMsgs == {<<"p","r","i","c","e">>, <<"Y","e","s">>, <<"N","o">>, <<" ","A","n","n"," ">>, <<"a","@","b",".","c","o"," ">>}

PromptRequests ==
  {<<"ip1", message, "sales", FALSE>> : message \in PromptMsgs}
  \cup {<<"ip1", <<>>, "sales", TRUE>>}

InitPrompt ==
  /\ version = "v13.2"
  /\ sessions = EmptyObj
  /\ keyOrder = <<>>
  /\ leads = <<>>
  /\ now = 0
  /\ faqSales = <<>>
  /\ reply = NoResponse
  /\ turn = Request("", <<>>, "absent", FALSE, "init")
  /\ sessionStore = EmptyObj
  /\ earlier = [offers |-> 0]

\* app.post("/api/chat") of v13.2, the offers of the prompt counted
ChatPromptV132(ip, message, context, reset) ==
  /\ version = "v13.2"
  /\ now < MaxClock
  /\ \E r \in {RouteV132(ip, message, context, reset)} :
       /\ sessions' = r.sessions
       /\ keyOrder' = r.keyOrder
       /\ leads' = r.leads
       /\ reply' = r.reply
       /\ turn' = Request(ip, message, context, reset, r.path)
       /\ earlier' = [offers |-> IF reset THEN 0
                                 ELSE IF r.path = "priceIntent"
                                   THEN earlier.offers + 1
                                 ELSE earlier.offers]
  /\ now' = now + 1
  /\ UNCHANGED <<version, faqSales, sessionStore>>

NextPrompt == \E q \in PromptRequests : ChatPromptV132(q[1], q[2], q[3], q[4])

SpecPrompt == InitPrompt /\ [][NextPrompt]_vars

(***************************************************************************)
(* Properties of the lead-capture flow (SpecLead).                         *)
(***************************************************************************)
\* position of a step in name -> company -> email -> comments -> complete
StepRank(step) ==
  CASE step = "name" -> 1 [] step = "company" -> 2 [] step = "email" -> 3
    [] step = "comments" -> 4 [] step = "none" -> 5

\* the step of the requesting client before the turn just taken
StepBefore == sessions[turn'.ip].step
StepAfter == sessions'[turn'.ip].step

\* the turn just taken ran continueLeadCapture
LeadCaptureTurn == turn'.path \in {"lead", "leadComplete"}

\* C1: over the messages handled by continueLeadCapture the step never moves
\* backward and never skips: it stays or moves to its successor in
\* name -> company -> email -> comments -> complete (step none), it stays
\* only at the email step, and a message failing the email pattern at the
\* email step leaves the step at email.
C1_LeadCaptureLinear ==
  [][LeadCaptureTurn =>
       /\ StepBefore # "none"
       /\ StepRank(StepAfter) - StepRank(StepBefore) \in {0, 1}
       /\ (StepAfter = StepBefore => StepBefore = "email")
       /\ (StepBefore = "email" /\ ~EmailPattern(Trim(turn'.message))
             => StepAfter = "email")]_vars

\* the capture has walked name -> company -> email -> comments
C1_Witness ==
  /\ turn.path = "lead"
  /\ sessions[turn.ip].step = "comments"
  /\ DOMAIN sessions[turn.ip].lead = {"name", "company", "email"}

\* C2: at the email step a message that does not match the pattern leaves
\* the step and the captured lead fields unchanged and is answered with the
\* validation-failure text; a message that matches stores the trimmed email,
\* keeps the other fields and moves the step to comments.
C2_EmailStep ==
  [][LeadCaptureTurn /\ StepBefore = "email" =>
       LET before == sessions[turn'.ip]
           after == sessions'[turn'.ip]
           m == turn'.message
       IN IF EmailPattern(Trim(m))
            THEN /\ after.step = "comments"
                 /\ after.lead = Put(before.lead, "email", Trim(m))
            ELSE /\ after.step = "email"
                 /\ after.lead = before.lead
                 /\ reply'.kind = "emailInvalid"]_vars

\* an email typed with surrounding blanks was accepted and stored trimmed
C2_Witness ==
  /\ turn.path = "lead"
  /\ sessions[turn.ip].step = "comments"
  /\ turn.message # Trim(turn.message)
  /\ sessions[turn.ip].lead.email = Trim(turn.message)

\* a rejected email: the capture is still at the email step
C2_WitnessRejected ==
  /\ turn.path = "lead"
  /\ reply.kind = "emailInvalid"
  /\ sessions[turn.ip].step = "email"

\* the request of the turn just taken reaches continueLeadCapture with the
\* session at the comments step
ProcessesComments ==
  /\ ~turn'.reset
  /\ turn'.message # <<>>
  /\ Trim(ToLowerCase(turn'.message)) \notin RestartWords \cup EndWords
  /\ turn'.context = "sales"
  /\ turn'.ip \in DOMAIN sessions
  /\ sessions[turn'.ip].step = "comments"

\* C3: the lead log changes only in a turn that processes a message at the
\* comments step; that turn appends exactly one record and sets the step of
\* the session back to none; every other turn leaves the log as it is.
C3_LeadAppendedOnlyAtComments ==
  [][/\ (leads' # leads) <=> ProcessesComments
     /\ ProcessesComments =>
          /\ Len(leads') = Len(leads) + 1
          /\ SubSeq(leads', 1, Len(leads)) = leads
          /\ sessions'[turn'.ip].step = "none"]_vars

\* a lead has been logged and the session is back at step none
C3_Witness ==
  /\ turn.path = "leadComplete"
  /\ Len(leads) = 1
  /\ sessions[turn.ip].step = "none"
  /\ DOMAIN leads[1] = {"time", "name", "company", "email", "comments"}

(***************************************************************************)
(* Properties of the sales FAQ handlers (SpecFaq).                         *)
(***************************************************************************)
\* the query of the last turn: (message || "").toLowerCase().trim()
Query == Trim(ToLowerCase(turn.message))

\* the session the last turn belongs to, {} when the store has none
TurnSession == IF Has(sessions, turn.ip) THEN sessions[turn.ip] ELSE EmptyObj

\* the last reply shows a record of the corpus
ShowsRecord == reply.kind \in {"yesno", "faq"}

\* the index, in corpus order, of the record with title t (the titles of a
\* corpus differ), 0 when there is none
TitleIdx(t) == FindIdx([n \in DOMAIN faqSales |-> LET f == faqSales[n] IN f.title = t])

\* the last turn was answered by the branch step
BranchAnswered ==
  turn.path \in {"branch", "branchLink", "branchReprompt", "branchThrow"}

\* the last turn chose a record for its query (exact title or weighted search)
AutoSelected == ShowsRecord /\ turn.path \in {"exact", "single", "confident"}

\* the corpus indices of the options of the last reply
OptionIdx == [i \in DOMAIN reply.options |-> TitleIdx(reply.options[i].label)]

\* C4 as stated: a record scoring under 6 for the query is never the record
\* auto-selected for it, the exact-title path included, and never an option
\* of the disambiguation reply (v15.1c).
C4_ThresholdEverywhere ==
  version = "v15.1c" =>
    /\ AutoSelected =>
         score(Query, faqSales[TitleIdx(reply.title)]) >= ScoreThreshold
    /\ reply.kind = "options" =>
         \A i \in DOMAIN OptionIdx :
           score(Query, faqSales[OptionIdx[i]]) >= ScoreThreshold

\* C4 amended: a record scoring under 6 for the query is never an option of
\* the disambiguation reply, and it is auto-selected for the query only by the
\* exact-title step, that is only when its normalised title equals the
\* normalised query (every release).
C4_ThresholdOfWeightedSearch ==
  /\ AutoSelected =>
       \/ score(Query, faqSales[TitleIdx(reply.title)]) >= ScoreThreshold
       \/ normalise(reply.title) = normalise(Query)
  /\ reply.kind = "options" =>
       \A i \in DOMAIN OptionIdx :
         /\ OptionIdx[i] # 0
         /\ score(Query, faqSales[OptionIdx[i]]) >= ScoreThreshold

\* the weighted search chose a record while another record matched a word of
\* the query without reaching the threshold
C4_Witness ==
  /\ AutoSelected
  /\ turn.path \in {"single", "confident"}
  /\ normalise(reply.title) # normalise(Query)
  /\ \E i \in DOMAIN faqSales :
       /\ score(Query, faqSales[i]) > 0
       /\ score(Query, faqSales[i]) < ScoreThreshold

\* the first record, in corpus order, whose normalised title is the
\* normalised query; 0 when there is none
ExactIdx == FindIdx([n \in DOMAIN faqSales |-> LET f == faqSales[n] IN normalise(f.title) = normalise(Query)])

\* C5: when some record's normalised title equals the normalised query, the
\* selector (every turn the branch step does not answer) shows the first such
\* record in corpus order and sets currentId to its id.
C5_ExactMatchPriority ==
  (turn.path # "init" /\ ~BranchAnswered /\ ExactIdx # 0) =>
    /\ ShowsRecord
    /\ reply.title = faqSales[ExactIdx].title
    /\ Get(TurnSession, "currentId") = Get(faqSales[ExactIdx], "id")

\* the record the session s is on when it has a branch: the index of the
\* record currentId names if that record has next.options, else 0
BranchIdx(s) ==
  LET cur == Get(s, "currentId")
      ci == IF ~Truthy(cur) THEN 0
            ELSE IF version \in {"v14.6", "v14.9"}
              THEN FindIdx([n \in DOMAIN faqSales |-> LET f == faqSales[n] IN Get(f, "id") = cur])
            ELSE FindIdx([n \in DOMAIN faqSales |-> LET f == faqSales[n] IN Get(f, "id") = Str(JsString(cur))])
  IN IF ci # 0 /\ HasOptions(faqSales[ci]) THEN ci ELSE 0

\* the session of id in the store, {} when the store has none
SessionOf(store, id) == IF Has(store, id) THEN store[id] ELSE EmptyObj

\* currentId of s is unset or the id of a record of the corpus
CurrentIdResolved(s) ==
  \/ ~Has(s, "currentId")
  \/ s.currentId = Undefined
  \/ \E i \in DOMAIN faqSales : Get(faqSales[i], "id") = s.currentId

\* C6: a turn of a session whose current record has a branch ends in Advance
\* (a record or an external link is shown) or in Reprompt (the question of
\* the current record again); it does not throw (status 500) and stores no
\* currentId that names no record.
C6_BranchTotal ==
  [][LET before == SessionOf(sessions, turn'.ip)
         after == SessionOf(sessions', turn'.ip)
     IN BranchIdx(before) # 0 =>
          /\ reply'.status = 200
          /\ reply'.kind \in {"yesno", "faq", "link", "reprompt"}
          /\ reply'.kind = "reprompt" =>
               reply' = Reprompt(faqSales[BranchIdx(before)])
          /\ CurrentIdResolved(after)]_vars

\* C7: in every reachable state the currentId of every session is unset or
\* the id of a record of the loaded corpus.
C7_CurrentIdNamesRecord ==
  \A id \in DOMAIN sessions : CurrentIdResolved(sessions[id])

\* C8: a reply with neither "yes" nor "no" to a session whose current record
\* has a branch is answered with the question of that record again and
\* leaves the session as it was.
C8_UnclassifiedReprompts ==
  [][LET before == SessionOf(sessions, turn'.ip)
         lower == Trim(ToLowerCase(turn'.message))
     IN (/\ BranchIdx(before) # 0
         /\ ~Includes(lower, YesWord)
         /\ ~Includes(lower, NoWord)) =>
          /\ reply' = Reprompt(faqSales[BranchIdx(before)])
          /\ SessionOf(sessions', turn'.ip) = before]_vars

\* the corpus indices of the records scoring at least 6 for the query
Matching == {i \in DOMAIN faqSales : score(Query, faqSales[i]) >= ScoreThreshold}

\* the list S the scorer of the release returned for the last message, as
\* pairs of title and score: findSalesMatches in v15.1c, the inline scoring
\* in v15.2
ScorerList ==
  IF version = "v15.1c"
    THEN LET list == findSalesMatches(faqSales, turn.message)
         IN [i \in DOMAIN list |->
               [title |-> list[i].title, score |-> list[i].score]]
  ELSE LET list == scored(faqSales, Query)
       IN [i \in DOMAIN list |->
             [title |-> list[i].faq.title, score |-> list[i].score]]

\* the last turn reached the weighted search and the scorer returned
SelectorDecided == turn.path \in {"nomatch", "single", "confident", "options"}

\* C9: with S the records scoring at least 6 in descending order of score,
\* the match selector of v15.1c and v15.2 answers NoMatch iff S is empty,
\* AutoSelect(S[1]) iff S has one record or has several and
\* score(S[1]) / score(S[2]) >= 1.9 or score(S[1]) >= 12, and
\* Disambiguate otherwise.
C9_DecisionRule ==
  (version \in {"v15.1c", "v15.2"} /\ SelectorDecided) =>
    LET S == ScorerList
        auto ==
          \/ Len(S) = 1
          \/ /\ Len(S) >= 2
             /\ \/ 10 * S[1].score >= 19 * S[2].score
                \/ S[1].score >= 12
    IN /\ Query # <<>> =>
            /\ {TitleIdx(S[i].title) : i \in DOMAIN S} = Matching
            /\ \A i \in DOMAIN S :
                 S[i].score = score(Query, faqSales[TitleIdx(S[i].title)])
            /\ \A i, j \in DOMAIN S : i < j => S[i].score >= S[j].score
       /\ reply.kind = "nomatch" <=> S = <<>>
       /\ ShowsRecord <=> auto
       /\ ShowsRecord =>
            /\ reply.title = S[1].title
            /\ TurnSession.currentId = faqSales[TitleIdx(S[1].title)].id
       /\ reply.kind = "options" <=> (S # <<>> /\ ~auto)

\* a record was auto-selected on its score of 12 or more although the second
\* score is more than top / 1.9
C9_Witness ==
  /\ version \in {"v15.1c", "v15.2"}
  /\ SelectorDecided
  /\ ShowsRecord
  /\ Len(ScorerList) >= 2
  /\ 10 * ScorerList[1].score < 19 * ScorerList[2].score

\* the scores the options of the last reply have for the query
OptionScore == [i \in DOMAIN OptionIdx |-> score(Query, faqSales[OptionIdx[i]])]

\* record i ranks before record j: higher score, or equal score and earlier
\* in the corpus
RanksBefore(i, j) ==
  \/ score(Query, faqSales[i]) > score(Query, faqSales[j])
  \/ /\ score(Query, faqSales[i]) = score(Query, faqSales[j])
     /\ i < j

\* C10: a Disambiguate reply presents at most 8 options; they are the
\* highest-scoring matching records in descending order of score, records of
\* equal score in corpus order.
C10_OptionsRanked ==
  reply.kind = "options" =>
    /\ Len(reply.options) <= 8
    /\ \A i \in DOMAIN OptionIdx : OptionIdx[i] \in Matching
    /\ \A i, j \in DOMAIN OptionIdx :
         i < j => RanksBefore(OptionIdx[i], OptionIdx[j])
    /\ \A k \in Matching :
         \/ \E i \in DOMAIN OptionIdx : OptionIdx[i] = k
         \/ /\ Len(reply.options) = 8
            /\ \A i \in DOMAIN OptionIdx : RanksBefore(OptionIdx[i], k)

\* more than 8 records match, and the first option is not the first matching
\* record of the corpus
C10_Witness ==
  /\ reply.kind = "options"
  /\ Cardinality(Matching) > 8
  /\ Len(reply.options) = 8
  /\ \E k \in Matching : k < OptionIdx[1]
  /\ \E i \in DOMAIN OptionScore : i > 1 /\ OptionScore[i] = OptionScore[i - 1]

\* C11: a turn whose message is empty or only whitespace never answers with
\* the options of a disambiguation and never shows a record: it is rejected
\* or answered with NoMatch (or, at a branch, with the branch question).
C11_EmptyQueryNeverMatches ==
  (turn.path # "init" /\ Query = <<>>) =>
    /\ reply.kind # "options"
    /\ ~ShowsRecord

(***************************************************************************)
(* Properties of the context router (SpecLead), continued.                 *)
(***************************************************************************)
\* the request q is a universal command: reset, or a message that is one of
\* restart / new question / end / exit / close
UniversalCommand(q) ==
  \/ q.reset
  \/ Trim(ToLowerCase(q.message)) \in RestartWords \cup EndWords

\* the session s is in the lead capture or awaits a price confirmation
InSalesFlow(s) == s.step # "none" \/ Flag(s, "awaitingPriceConfirm")

\* C12: a universal command is answered by its own reply in every session
\* state, and after it the session is neither in the lead capture nor
\* awaiting a price confirmation.
C12_UniversalCommandsClearFlow ==
  [][UniversalCommand(turn') =>
       /\ reply'.kind \in {"resetOk", "restart", "bye"}
       /\ ~InSalesFlow(sessions'[turn'.ip])]_vars

\* C13: when the lead-capture step of a session is not none, a request of
\* that session with a message that is no universal command is handled by
\* continueLeadCapture, whatever context it declares.
C13_LeadCapturePreempts ==
  [][(/\ Has(sessions, turn'.ip)
      /\ sessions[turn'.ip].step # "none"
      /\ turn'.message # <<>>
      /\ ~UniversalCommand(turn')) =>
       /\ turn'.path \in {"lead", "leadComplete"}
       /\ \E r \in {continueLeadCapture(sessions[turn'.ip], turn'.message)} :
            reply'.kind = (IF r.complete THEN "leadThanks" ELSE r.text)]_vars

\* the message of request q has the price intent of the deployed release
SalesIntent(q) ==
  IncludesAny(Trim(ToLowerCase(q.message)),
              IF version = "v13.0" THEN PriceWordsV130 ELSE PriceWordsV132)

\* C14: a message with sales intent, received while the session is not in
\* the lead capture, begins the lead capture: the reply asks for the name,
\* the step becomes name and the lead is empty.
C14_SalesIntentBeginsCapture ==
  [][(/\ ~turn'.reset
      /\ turn'.message # <<>>
      /\ ~UniversalCommand(turn')
      /\ SalesIntent(turn')
      /\ (Has(sessions, turn'.ip) => sessions[turn'.ip].step = "none")) =>
       /\ reply'.kind = "askName"
       /\ sessions'[turn'.ip].step = "name"
       /\ sessions'[turn'.ip].lead = EmptyObj]_vars

(***************************************************************************)
(* Properties of the numbered choice (SpecSupport).                        *)
(***************************************************************************)
\* the session of that id is awaiting a choice
Awaiting(store, id) == Has(store, id) /\ Flag(store[id], "awaitingFaqChoice")

\* the pending list of the session of that id
PendingList(store, id) ==
  IF Has(store, id) /\ Has(store[id], "lastFaqList")
    THEN store[id].lastFaqList ELSE <<>>

\* the options of a pending list whose label contains the message, case
\* ignored
LabelledBy(list, message) ==
  {i \in DOMAIN list :
     /\ Trim(message) # <<>>
     /\ Includes(ToLowerCase(articleTitle(list[i])),
                 Trim(ToLowerCase(message)))}

\* the option a message chooses from a pending list: the one it numbers,
\* else the only one it labels, else 0
Choice(list, message) ==
  IF AllDigits(Trim(message))
    THEN IF ParseInt(Trim(message)) \in DOMAIN list
           THEN ParseInt(Trim(message)) ELSE 0
  ELSE IF Cardinality(LabelledBy(list, message)) = 1
    THEN CHOOSE i \in LabelledBy(list, message) : TRUE
  ELSE 0

\* a request to the support agent that is no universal command, sent while
\* its session awaits a choice
ChoiceTurn(q) ==
  /\ q.context = "support"
  /\ q.message # <<>>
  /\ ~UniversalCommand(q)
  /\ Awaiting(sessions, q.ip)

\* C15: while a session awaits a choice, a message that numbers or labels
\* an option of the pending list is answered with that record, and the
\* flag and the pending list are cleared.
C15_ChoiceResolves ==
  [][(ChoiceTurn(turn')
      /\ Choice(PendingList(sessions, turn'.ip), turn'.message) # 0) =>
       /\ reply' = Article(PendingList(sessions, turn'.ip)
                     [Choice(PendingList(sessions, turn'.ip), turn'.message)])
       /\ ~Awaiting(sessions', turn'.ip)
       /\ PendingList(sessions', turn'.ip) = <<>>]_vars

\* the reply repeats the menu of a pending list or asks for a valid number
IsReprompt(rep, list) == rep = ArticleList(list) \/ rep.kind = "validNumber"

\* C16: while a session awaits a choice, a message that numbers or labels
\* no option of the pending list is answered with a re-prompt and leaves
\* the flag set and the pending list as it was.
C16_InvalidChoiceReprompts ==
  [][(ChoiceTurn(turn')
      /\ Choice(PendingList(sessions, turn'.ip), turn'.message) = 0) =>
       /\ IsReprompt(reply', PendingList(sessions, turn'.ip))
       /\ Awaiting(sessions', turn'.ip)
       /\ PendingList(sessions', turn'.ip) = PendingList(sessions, turn'.ip)]_vars

\* C17: after every turn that was answered (with a record, a menu, a
\* no-match text or a fallback; not with an error status or with the
\* request for a valid number) the session of the request awaits a choice
\* if and only if the reply of that turn was a numbered menu, and its
\* pending list is non-empty exactly then.
C17_AwaitingIffMenu ==
  (turn.path # "init" /\ reply.status = 200 /\ reply.kind # "validNumber") =>
    /\ Awaiting(sessions, turn.ip) <=> reply.kind = "supportList"
    /\ PendingList(sessions, turn.ip) # <<>> <=> reply.kind = "supportList"

(***************************************************************************)
(* Properties of the sales FAQ handlers (SpecFaq), continued.             *)
(***************************************************************************)
\* the titles of the pending list of session s
PendingLabels(s) ==
  IF Has(s, "lastFaqList")
    THEN [i \in DOMAIN s.lastFaqList |-> s.lastFaqList[i].title]
    ELSE <<>>

\* the labels an options reply presents
PresentedLabels(rep) == [i \in DOMAIN rep.options |-> rep.options[i].label]

\* an auto-selecting turn leaves currentId at the id of the record shown
AutoSelectSetsCurrentId ==
  AutoSelected =>
    Get(TurnSession, "currentId") = Get(faqSales[TitleIdx(reply.title)], "id")

\* a menu leaves the session awaiting a choice from the list presented
MenuSetsPending ==
  reply.kind = "options" =>
    /\ Flag(TurnSession, "awaitingChoice")
    /\ PendingLabels(TurnSession) = PresentedLabels(reply)

\* C18: an AutoSelect reply sets currentId to the id of the record it
\* shows; a Disambiguate reply sets awaitingChoice and stores the list it
\* presents; a NoMatch reply changes neither currentId nor the pending list.
C18_SelectorOutcomeApplied ==
  [][/\ AutoSelectSetsCurrentId'
     /\ MenuSetsPending'
     /\ turn'.path = "nomatch" =>
          /\ Get(SessionOf(sessions', turn'.ip), "currentId")
               = Get(SessionOf(sessions, turn'.ip), "currentId")
          /\ PendingLabels(SessionOf(sessions', turn'.ip))
               = PendingLabels(SessionOf(sessions, turn'.ip))]_vars

(***************************************************************************)
(* Properties of the session store (SpecSupport).                          *)
(***************************************************************************)
\* the store with every session but that of id removed
OwnStore(store, id) == [k \in DOMAIN store \cap {id} |-> store[k]]

\* the store the route of the release hands to the support agent for
\* request q
RouteStore(q) ==
  IF version = "v14.0" \/ Has(sessions, q.ip) THEN sessions
  ELSE Put(sessions, q.ip,
           IF version = "v13.2" THEN DefaultSession
           ELSE [step |-> "none", lead |-> EmptyObj])

\* the support agent of the release answering request q from a given store
SupportAgent(store, order, q, ai) ==
  IF version = "v13.2"
    THEN IF q.path = "generalSupport"
           THEN quickSupportLookupV132(store, order, q.message)
           ELSE handleSupportAgentV132(store, order, q.message)
  ELSE IF version = "v13.6"
    THEN handleSupportAgentV136(store, q.message, q.ip, ai)
  ELSE handleSupportAgentV140(store, q.message, q.ip, ai)

\* C19: a turn of one session leaves every other session as it was, and
\* what the support agent replies and leaves in the session of the request
\* is what it replies and leaves when that session is the only one in the
\* store.
C19_SessionsIsolated ==
  [][/\ \A a \in SupportSessionIds \ {turn'.ip} :
          /\ Has(sessions', a) <=> Has(sessions, a)
          /\ SessionOf(sessions', a) = SessionOf(sessions, a)
     /\ turn'.path \in {"support", "generalSupport"} =>
          \E ai \in BOOLEAN :
            \E r \in {SupportAgent(OwnStore(RouteStore(turn'), turn'.ip),
                                   <<turn'.ip>>, turn', ai)} :
              /\ reply' = r.reply
              /\ sessions'[turn'.ip] = r.store[turn'.ip]]_vars

(***************************************************************************)
(* Properties of the context router (SpecLead): replies.                   *)
(***************************************************************************)
\* C20: every request with a non-empty message is answered: the turn never
\* ends without a response, whatever context the request declares.
C20_EveryMessageAnswered ==
  (turn.path # "init" /\ turn.message # <<>>) => reply # NoResponse

(***************************************************************************)
(* Properties of the sales FAQ handlers (SpecFaq): faults.                 *)
(***************************************************************************)
\* the handler of the last turn threw
HandlerThrew == turn.path \in {"scoreThrow", "branchThrow"}

\* C21: when the handler throws, the request is answered with the generic
\* no-match reply, not with an error outcome.
C21_FaultsBecomeFallback == HandlerThrew => reply = NoMatchReply

(***************************************************************************)
(* Properties of the request validation (SpecSupport).                     *)
(***************************************************************************)
\* C22: a request without message (and without the reset flag) is rejected
\* with status 400 and leaves the session store as it was.
C22_EmptyMessageRejected ==
  [][(turn'.message = <<>> /\ ~turn'.reset) =>
       /\ reply' = Reply(400, "noMessage")
       /\ sessions' = sessions]_vars

\* the handling of the last request failed part-way
TurnFailed == turn.path \in {"faqThrow", "openaiThrow"}

\* C23: a turn that fails part-way leaves the persisted sessions as they
\* were before the turn.
C23_FailedTurnPersistsNothing ==
  [][TurnFailed' =>
       loadSessionsV925(sessionStore') = loadSessionsV925(sessionStore)]_vars

\* C24: after a turn whose handler called getSession for the session id of
\* the request, the store holds an entry for that id.
C24_GetSessionCreates == turn.path # "init" => Has(sessions, turn.ip)

\* the last step was a call of updateSession
Updated == Has(earlier, "op") /\ earlier.op = "updateSession"

\* C25: updateSession(id, data) leaves the session of id with every field
\* of data at its new value and every other field at its old value, and
\* leaves every other session of the file as it was.
C25_UpdateSessionMerges ==
  [][Updated' =>
       LET id == earlier'.id
           data == earlier'.data
           old == SessionOf(sessions, id)
       IN /\ DOMAIN sessions' = DOMAIN sessions \cup {id}
          /\ DOMAIN sessions'[id] = DOMAIN old \cup DOMAIN data
          /\ \A k \in DOMAIN data : sessions'[id][k] = data[k]
          /\ \A k \in DOMAIN old \ DOMAIN data : sessions'[id][k] = old[k]
          /\ \A o \in DOMAIN sessions \ {id} : sessions'[o] = sessions[o]]_vars

\* a merge kept a field of the session that the merged object does not
\* name, with another session in the file
C25_Witness ==
  /\ Updated
  /\ DOMAIN sessions[earlier.id] \ DOMAIN earlier.data # {}
  /\ DOMAIN earlier.data # {}
  /\ DOMAIN sessions \ {earlier.id} # {}

\* session s has no timestamp or one more than 12 hours before t
Stale(s, t) == ~Has(s, "timestamp") \/ t - s.timestamp > CutoffHours

\* the branches of the route that leave context, step and the quote flag
\* of the session alone
QuietPaths == {"greeting", "openai", "openaiThrow", "faqThrow"}

\* C26: the sweep at the start of a step removes exactly the sessions that
\* are stale at that time and leaves the others as they were; a session
\* that is not stale when its next message arrives is carried on, with a
\* refreshed timestamp.
C26_SweepRemovesExactlyStale ==
  [][/\ \A ip \in DOMAIN sessions :
          (ip # turn'.ip \/ turn'.path = "badRequest") =>
            IF Stale(sessions[ip], now') THEN ~Has(sessions', ip)
            ELSE Has(sessions', ip) /\ sessions'[ip] = sessions[ip]
     /\ \A ip \in DOMAIN sessions' : Has(sessions, ip) \/ ip = turn'.ip
     /\ (turn'.path \in QuietPaths /\ Has(sessions, turn'.ip)
           /\ ~Stale(sessions[turn'.ip], now')) =>
          /\ Has(sessions', turn'.ip)
          /\ sessions'[turn'.ip].timestamp = now'
          /\ sessions'[turn'.ip].context = sessions[turn'.ip].context
          /\ sessions'[turn'.ip].step = sessions[turn'.ip].step
          /\ sessions'[turn'.ip].awaitingQuoteDecision =
               sessions[turn'.ip].awaitingQuoteDecision]_vars

\* the sweep at start-up has run on the store of the earlier run: the
\* session seen 12 hours ago and the one seen an hour ago are kept, the one
\* seen 13 hours ago and the one without timestamp are gone
C26_Witness ==
  /\ turn.path = "init"
  /\ DOMAIN sessions = {"ip2", "ip3"}
  /\ sessions["ip2"] = PreviousRun["ip2"]
  /\ sessionStore = FileOf(sessions)

\* C27: a reset succeeds whether or not the session exists and leaves no
\* session for the address; resetting again changes nothing; the next
\* message of the address starts from the default session.
C27_ResetIdempotent ==
  [][/\ turn'.path = "reset" =>
          /\ reply' = Reply(200, "welcome")
          /\ ~Has(sessions', turn'.ip)
          /\ resetSessionV925(sessions', sessionStore', turn'.ip) =
               [mem |-> sessions', file |-> sessionStore']
     /\ (turn.path = "reset" /\ turn'.path = "reset" /\ turn'.ip = turn.ip
           /\ now' = now) =>
          sessions' = sessions /\ sessionStore' = sessionStore
     /\ (turn.path = "reset" /\ turn'.ip = turn.ip
           /\ turn'.path = "greeting") =>
          sessions'[turn'.ip] =
            [step |-> "none", context |-> "general", topic |-> Null,
             awaitingQuoteDecision |-> FALSE, pendingTypo |-> Null,
             salesLead |-> EmptyObj, lastMessage |-> turn'.message,
             timestamp |-> now']]_vars

\* a reset has been answered and the address has no session, in memory or
\* in the file
C27_Witness ==
  /\ turn.path = "reset"
  /\ reply.status = 200
  /\ ~Has(sessions, turn.ip)
  /\ sessionStore = FileOf(sessions)

\* C28: whenever the v9.25 process is between requests, the store that
\* loadSessions reads from sessions.json equals the store in memory.
C28_FileMatchesMemory == loadSessionsV925(sessionStore) = sessions

\* a turn changed context, topic and last message of a session, and the
\* file holds the changed session
C28_Witness ==
  /\ turn.path = "voucher"
  /\ sessions[turn.ip].lastMessage = <<"G","i","v","e","a","V","o","u","c","h","e","r","I","n","t","r","o">>
  /\ sessions[turn.ip].context = "support"
  /\ sessionStore = FileOf(sessions)

Replayed ==
  /\ Has(earlier, "message")
  /\ earlier' = earlier
  /\ turn'.message = earlier.message
  /\ SessionOf(sessions, turn'.ip) = earlier.state

YesAfterIntro ==
  /\ turn.path \in {"voucher", "iWantFed"}
  /\ turn'.ip = turn.ip
  /\ ~turn'.reset
  /\ Trim(ToLowerCase(turn'.message)) = <<"y","e","s">>
  /\ ~Stale(sessions[turn.ip], now')

\* C31: a "yes" that follows the GiveaVoucher (iWantFed) introduction is
\* answered with the GiveaVoucher (iWantFed) follow-up, and lastMessage
\* moves from the Intro marker to the Followup marker.
C31_YesFollowsIntro ==
  [][YesAfterIntro =>
       IF turn.path = "voucher"
         THEN /\ reply' = Reply(200, "voucherFollowup")
              /\ sessions'[turn.ip].lastMessage = <<"G","i","v","e","a","V","o","u","c","h","e","r","F","o","l","l","o","w","u","p">>
         ELSE /\ reply' = Reply(200, "iWantFedFollowup")
              /\ sessions'[turn.ip].lastMessage = <<"i","W","a","n","t","F","e","d","F","o","l","l","o","w","u","p">>]_vars

\* session s is in the sales flow of v9.25
InQuoteFlow(s) ==
  /\ Has(s, "awaitingQuoteDecision") /\ s.awaitingQuoteDecision
  /\ s.context = "sales"

\* the step puts the session of its request into the sales flow
EntersQuoteFlow ==
  /\ Has(sessions', turn'.ip)
  /\ InQuoteFlow(sessions'[turn'.ip])
  /\ ~(Has(sessions, turn'.ip) /\ InQuoteFlow(sessions[turn'.ip]))

\* C32: a turn puts the session into the sales flow (awaitingQuoteDecision
\* true, context sales) only if isSalesIntent holds for its message.
C32_SalesFlowOnlyOnIntent ==
  [][EntersQuoteFlow => isSalesIntent(turn'.message)]_vars

\* the target of a classified reply lower to the branch of record ci:
\* options.yes for a reply with "yes", options.no for one with "no"
BranchTarget(ci, lower) ==
  IF ci = 0 THEN Undefined
  ELSE IF Includes(lower, YesWord) THEN Get(faqSales[ci].next.options, "yes")
  ELSE IF Includes(lower, NoWord) THEN Get(faqSales[ci].next.options, "no")
  ELSE Undefined

\* the record whose id equals the target t, 0 if none
TargetById(t) ==
  FindIdx([n \in DOMAIN faqSales |-> LET f == faqSales[n] IN
    JsString(Get(f, "id")) = Trim(JsString(t))])

\* the record whose title equals the target t case-insensitively, 0 if none
TargetByTitle(t) ==
  FindIdx([n \in DOMAIN faqSales |-> LET f == faqSales[n] IN
    Trim(ToLowerCase(f.title)) = ToLowerCase(Trim(JsString(t)))])

\* the turn shows record i and puts the session on it
AdvancesTo(i) ==
  /\ reply'.kind \in {"yesno", "faq"}
  /\ reply'.title = faqSales[i].title
  /\ Get(SessionOf(sessions', turn'.ip), "currentId") = Get(faqSales[i], "id")

\* C33: in v15.1c and v15.2 a classified branch reply resolves its target
\* first to the record whose id equals it, then to the record whose title
\* equals it case-insensitively, and otherwise answers with the target as an
\* external link when the target contains ".html".
C33_TargetResolutionOrder ==
  [][LET before == SessionOf(sessions, turn'.ip)
         t == BranchTarget(BranchIdx(before), Trim(ToLowerCase(turn'.message)))
     IN (version \in {"v15.1c", "v15.2"} /\ Truthy(t)) =>
          IF TargetById(t) # 0 THEN AdvancesTo(TargetById(t))
          ELSE IF TargetByTitle(t) # 0 THEN AdvancesTo(TargetByTitle(t))
          ELSE Includes(Trim(JsString(t)), DotHtml) =>
                 reply' = LinkReply(Trim(JsString(t)))]_vars

\* p occurs in s as a run of consecutive characters
HasSubstring(s, p) ==
  \E i \in 1..(Len(s) - Len(p) + 1) : SubSeq(s, i, i + Len(p) - 1) = p

\* the class of a reply to a branch: affirmative, negative or unclassified
ReplyClass(message) ==
  LET lower == Trim(ToLowerCase(message))
  IN IF HasSubstring(lower, <<"y","e","s">>) THEN "affirmative"
     ELSE IF HasSubstring(lower, <<"n","o">>) THEN "negative"
     ELSE "unclassified"

\* what the handler of the release makes of message when the store is store
HandledOn(store, order, sessionId, message) ==
  CASE version = "v14.6" ->
         handleSalesFAQV146(store, order, faqSales, message, sessionId)
    [] version = "v14.9" ->
         handleSalesFAQV149(store, order, faqSales, message, sessionId)
    [] version = "v15.1c" ->
         handleSalesFAQV151c(store, order, faqSales, message, sessionId)
    [] version = "v15.2" ->
         handleSalesFAQV152(store, order, faqSales, message, sessionId)

\* what the handler of the release makes of message in the present state
HandledAs(sessionId, message) ==
  HandledOn(sessions, keyOrder, sessionId, message)

\* the option of the branch record of session s a class selects
OptionOf(s, class) ==
  Get(faqSales[BranchIdx(s)].next.options,
      IF class = "affirmative" THEN "yes" ELSE "no")

\* the turn left what the bare word left would have
SameAsWord(word) ==
  LET r == HandledAs(turn'.ip, word)
  IN reply' = r.reply /\ sessions' = r.sessions

\* C34: a reply to a branch is classified by substring: with "yes" in its
\* lowercased text it is treated as the bare reply "yes" is, with "no" and
\* without "yes" as the bare reply "no" is, and a reply with neither takes
\* none of the two options.
C34_ClassifiedBySubstring ==
  [][LET before == SessionOf(sessions, turn'.ip)
         class == ReplyClass(turn'.message)
     IN BranchIdx(before) # 0 =>
          CASE class = "affirmative" -> SameAsWord(<<"y","e","s">>)
            [] class = "negative" -> SameAsWord(<<"n","o">>)
            [] OTHER -> turn'.path \notin {"branch", "branchLink", "branchThrow"}]_vars

\* a reply with both words, and one whose "no" lies inside a word, to a
\* branch whose two options differ
C34_Witness ==
  /\ turn.message \in {<<"N","o","t"," ","y","e","s">>,
                       <<"I"," ","d","o","n","'","t"," ","k","n","o","w">>}
  /\ turn.path \in {"branch", "branchLink"}

\* the turn of request r run alone on file
AloneOn(file, r) ==
  handleSalesFAQV152(file, <<>>, faqSales, earlier.message[r], "s1")

\* the file after the requests of h were served one after the other
RECURSIVE SerialFile(_)
SerialFile(h) ==
  IF h = <<>> THEN earlier.start
  ELSE AloneOn(SerialFile(SubSeq(h, 1, Len(h) - 1)), h[Len(h)]).sessions

\* the file and every awaited reply are those of serving h one by one
SerialOutcome(h) ==
  /\ sessions = SerialFile(h)
  /\ \A i \in 1..Len(h) :
       earlier.out[h[i]] = AloneOn(SerialFile(SubSeq(h, 1, i - 1)), h[i]).reply

\* the orders in which the handled requests can be served one by one
SerialOrders ==
  {h \in UNION {[1..n -> ConcurrentReqs] : n \in 0..Cardinality(ConcurrentReqs)} :
     /\ \A i, j \in 1..Len(h) : i # j => h[i] # h[j]
     /\ {h[i] : i \in 1..Len(h)} = {earlier.handled[i] : i \in 1..Len(earlier.handled)}}

FieldsAt(step) ==
  CASE step = "name" -> {}
    [] step = "company" -> {"name"}
    [] step = "email" -> {"name", "company"}
    [] step = "comments" -> {"name", "company", "email"}

\* the turn stored its trimmed message as the field of the step it was at
\* and kept the fields stored before
StoresField(before, after) ==
  /\ DOMAIN after = DOMAIN before \cup {StepBefore}
  /\ after[StepBefore] = Trim(turn'.message)
  /\ \A k \in DOMAIN before : after[k] = before[k]

\* C36: in v13.0 the lead of a session in the capture holds the fields of the
\* steps passed since the capture started and no others (the capture starts
\* with the empty lead), every step stores its trimmed message, the record
\* written is the lead with the four fields name, company, email, comments,
\* and the email of every record written matches local@domain.tld.
C36_LeadRecordComplete ==
  [][version = "v13.0" =>
       /\ \A ip \in DOMAIN sessions' :
            sessions'[ip].step # "none" =>
              DOMAIN sessions'[ip].lead = FieldsAt(sessions'[ip].step)
       /\ (LeadCaptureTurn /\ StepAfter # StepBefore) =>
            StoresField(sessions[turn'.ip].lead, sessions'[turn'.ip].lead)
       /\ \A i \in (Len(leads) + 1)..Len(leads') :
            /\ DOMAIN leads'[i] = {"time", "name", "company", "email", "comments"}
            /\ \A k \in {"name", "company", "email", "comments"} :
                 leads'[i][k] = sessions'[turn'.ip].lead[k]
            /\ EmailPattern(leads'[i].email)]_vars

\* a record has been written whose email was typed with a blank after it
C36_Witness ==
  /\ version = "v13.0"
  /\ turn.path = "leadComplete"
  /\ Len(leads) >= 1
  /\ leads[Len(leads)].email = <<"a","@","b",".","c","o">>
  /\ leads[Len(leads)].name = <<"A","n","n">>

PricingRequest ==
  /\ ~UniversalCommand(turn')
  /\ turn'.message # <<>>
  /\ turn'.context = "sales"
  /\ IncludesAny(Trim(ToLowerCase(turn'.message)), PriceWordsV132)

ResolvesToLink(before) ==
  LET t == BranchTarget(BranchIdx(before), Trim(ToLowerCase(turn'.message)))
  IN /\ Truthy(t)
     /\ TargetById(t) = 0
     /\ TargetByTitle(t) = 0
     /\ Includes(Trim(JsString(t)), DotHtml)

\* the turn answered with the link, left the session as it was, and the same
\* message sent again gets the same link
LinkAndStay(before) ==
  LET t == BranchTarget(BranchIdx(before), Trim(ToLowerCase(turn'.message)))
  IN /\ reply' = LinkReply(Trim(JsString(t)))
     /\ SessionOf(sessions', turn'.ip) = before
     /\ HandledOn(sessions', keyOrder', turn'.ip, turn'.message).reply = reply'

\* C38: in v14.9, v15.1c and v15.2 a classified branch reply whose target
\* matches no record by id or title and contains ".html" is answered with
\* the link, leaves currentId (the whole session) unchanged, and gets the
\* same link when it is sent again.
C38_LinkKeepsBranch ==
  [][LET before == SessionOf(sessions, turn'.ip)
     IN (version \in {"v14.9", "v15.1c", "v15.2"} /\ ResolvesToLink(before)) =>
          LinkAndStay(before)]_vars

\* C39: in v14.6 and v14.9 the list a multi-match reply stores in the session
\* is the list of options it presents: the same length, at most 8, and
\* option i carries index i and the title of element i of the stored list.
C39_PendingIsPresented ==
  (version \in {"v14.6", "v14.9"} /\ reply.kind = "options") =>
    /\ Has(TurnSession, "lastFaqList")
    /\ Len(TurnSession.lastFaqList) = Len(reply.options)
    /\ Len(reply.options) <= MaxOptions
    /\ \A i \in DOMAIN reply.options :
         /\ reply.options[i].index = i
         /\ reply.options[i].label = TurnSession.lastFaqList[i].title

\* the session of ip is in the default state of its release: step none and
\* an empty lead in the releases with a lead capture; in v9.25, whose reset
\* deletes the entry, no session at all, so that the next request starts
\* from a new one
InDefaultState(store, ip) ==
  IF version = "v9.25" THEN ~Has(store, ip)
  ELSE /\ Has(store, ip)
       /\ store[ip].step = "none"
       /\ store[ip].lead = EmptyObj
       /\ ~InSalesFlow(store[ip])

====
